---------------------------- MODULE Spec2Model ----------------------------
(***************************************************************************)
(* Agent preview session controller of the admin front end.                *)
(*                                                                         *)
(* Two React components are modelled:                                      *)
(*   - CreateAgent (src/src/app/agents/[id]/edit/page.tsx, lines 1004 ff): *)
(*     the session-token cache, the debounced automatic preview and the    *)
(*     manual "send test message" path of step 3;                          *)
(*   - AgentChatPage (src/unnamed/part_003): the session-token cache, its  *)
(*     invalidation on a change of the agent's public id, and sendMessage. *)
(*                                                                         *)
(* A handler together with the render it causes and the effects of that    *)
(* render is one atomic step (single-threaded event loop); every await of  *)
(* a network call is a suspension point, modelled by an in-flight record   *)
(* that a later step resolves with success or failure.                     *)
(***************************************************************************)
EXTENDS Integers, Sequences, FiniteSets, Bags, TLC

VARIABLES
    \* ---- time ----
    now,                 \* Date.now(), in ms
    \* ---- CreateAgent: React state ----
    mounted,             \* the component is mounted
    currentStep,         \* useState(1)
    agentId,             \* useState<number | null>(null); 0 is null
    createdAgent,        \* useAgent(agentId).data; 0 is undefined
    config,              \* the ten tunables the preview hash is built from
    messages,            \* useState<Message[]>([])
    sessionToken,        \* useState<string | null>(null)
    sessionTokenExpiry,  \* useState<number | null>(null); 0 is null
    \* ---- CreateAgent: refs, timer, effect bookkeeping ----
    messagesRef,         \* useRef<Message[]>([])
    previewController,   \* useRef({ timeout: null, hash: '' })
    timers,              \* the pending setTimeout callbacks, by handle
    hasCleanup,          \* the last run of the debounce effect returned a cleanup
    \* ---- CreateAgent: suspended async functions ----
    previewRuns,         \* runAutoPreview invocations awaiting the network
    manualSends,         \* sendTestMessage invocations awaiting the network
    \* ---- observation of the network boundary ----
    changes,             \* number of configuration changes made
    burst,               \* observation of the current burst of changes
    outcome,             \* observation of the preview round that ended last
    cancelled,           \* observation of the pending timer that was dropped last
    route,               \* the part of the application that runs: "create", "chat", ...
    chatAgent,           \* AgentChatPage: agent, useAgent(agentId).data (NoAgent: undefined)
    isLoading,           \* AgentChatPage: useState isLoading
    conversationId,      \* AgentChatPage: useState conversationId (0: null)
    chatSends,           \* AgentChatPage: the sendMessage calls in flight
    \* ---- the API client and the session-token route ----
    apiResponse,         \* a response of the backend on its way through the API client
    proxyCall,           \* a POST to /api/agents/[id]/session-token and its answer
    \* ---- authStore ----
    authStore,           \* the state of useAuthStore
    authCalls,           \* the initializeApp and login calls awaiting the network
    \* ---- CreateAgent, step 1: the create request and the backend ----
    wizard,              \* the mount of CreateAgent: its idempotencyKey, step, agentId
    createRequests,      \* the create requests in flight (a bag: two may be alike)
    backendAgents,       \* the agents the backend has created, by idempotency key
    \* ---- uiStore and ThemeToggle ----
    theme,               \* useUIStore theme
    darkClass,           \* document.documentElement has the class "dark"
    prefersDark,         \* matchMedia('(prefers-color-scheme: dark)').matches
    themeToggle,         \* ThemeToggle: mounted, listening to the media query, its title
    clickRun,            \* observation: the clicks on the toggle in a row, and the theme before them
    \* ---- CreateAgent, step 2: discovery of URLs by crawling ----
    crawl,               \* the mount of the page: discovering, crawlTaskId, the enqueue in flight
    pollers              \* the runs of the polling effect, one for each task id it has seen

\* The variables of the rest of the application, which the two pages leave
\* alone.
appVars == <<apiResponse, proxyCall, authStore, authCalls,
             wizard, createRequests, backendAgents,
             theme, darkClass, prefersDark, themeToggle, clickRun, crawl, pollers>>

crawlVars == <<crawl, pollers>>

authVars == <<authStore, authCalls>>

wizardVars == <<wizard, createRequests, backendAgents>>

uiVars == <<theme, darkClass, prefersDark, themeToggle, clickRun>>

\* The variables of the two pages.
pageVars == <<now, mounted, currentStep, agentId, createdAgent, config, messages,
              sessionToken, sessionTokenExpiry, messagesRef, previewController,
              timers, hasCleanup, previewRuns, manualSends, changes, burst, outcome,
              cancelled, chatAgent, isLoading, conversationId, chatSends>>

vars == <<now, mounted, currentStep, agentId, createdAgent, config, messages,
          sessionToken, sessionTokenExpiry, messagesRef, previewController,
          timers, hasCleanup, previewRuns, manualSends, changes, burst, outcome, cancelled,
          route, chatAgent, isLoading, conversationId, chatSends, appVars>>

----------------------------------------------------------------------------
\* Bounds of the model

MaxTicks == 4            \* the clock stops after MaxTicks ticks
MaxSends == 1            \* messages the user sends to one log
MaxChanges == 2          \* configuration changes made

\* Program constants

DebounceMs == 800        \* setTimeout(..., 800)
SafetyWindow == 5000     \* const safetyWindow = 5000

TickMs == DebounceMs \div 2

AgentIds == {1}          \* the agent the backend answers this mount's key with
NoAgent == 0
DocIds == {1, 2}         \* documents of the agent (useDocuments)
ExpiresInChoices == {6}  \* expires_in (seconds) the issuer answers

NoToken == [for |-> 0, exp |-> 0]

----------------------------------------------------------------------------
\* Pure helpers

Range(s) == {s[i] : i \in DOMAIN s}

\* Variant: the document ids are joined in the order of the selection.
SortAscSkipped(s) == s

\* selectedDocs.slice().sort((a, b) => a - b)
RECURSIVE SortAsc(_)
SortAsc(s) ==
    IF s = <<>> THEN <<>>
    ELSE LET m == CHOOSE x \in Range(s) : \A y \in Range(s) : x <= y
             RECURSIVE Without(_)
             Without(t) == IF t = <<>> THEN <<>>
                           ELSE IF Head(t) = m THEN Tail(t)
                           ELSE <<Head(t)>> \o Without(Tail(t))
         IN <<m>> \o SortAsc(Without(s))

\* The hash of the debounce effect: JSON.stringify of the ten fields in a
\* fixed key order, with the document ids sorted ascending.
EmptyHash == <<>>

Hash(cfg) ==
    <<cfg.domainEnabled, cfg.selectedPersona, SortAsc(cfg.selectedDocs),
      cfg.webSearchEnabled, cfg.siteWhitelist, cfg.groundingMode,
      cfg.expertiseLevel, cfg.additionalContext, cfg.personaOverrides,
      cfg.domain>>

\* message.id.startsWith('preview-')
IsPreviewId(id) == id.prefix \in {"preview-user", "preview-assistant", "preview-error"}

IsRealUser(m) == m.role = "user" /\ ~IsPreviewId(m.id)

\* Variant: only the last message of the log is looked at.
HasRealUserLastOnly(msgs) == msgs # <<>> /\ IsRealUser(msgs[Len(msgs)])

\* messages.some((m) => m.role === 'user' && !m.id.startsWith('preview-'))
HasRealUser(msgs) == \E i \in DOMAIN msgs : IsRealUser(msgs[i])

\* The prompt and session_context runAutoPreview builds from its closure.
PreviewPrompt(cfg) ==
    [kind |-> "prompt",
     domainEnabled |-> cfg.domainEnabled,
     persona |-> IF cfg.domainEnabled THEN cfg.selectedPersona ELSE "",
     docCount |-> IF cfg.domainEnabled THEN Len(cfg.selectedDocs) ELSE 0]

\* A message. Of an id only the prefix is kept: nothing reads the number that
\* follows it (Date.now(), or Date.now() + 1 for an answer).
Msg(prefix, role, content) ==
    [id |-> [prefix |-> prefix], role |-> role, content |-> content]

Text(kind) == [kind |-> kind, domainEnabled |-> FALSE, persona |-> "", docCount |-> 0]

\* Variant: whatever is cached counts as usable, also nothing.
TokenUsableUnchecked(tok, exp, t) == TRUE

\* Variant: the token counts as usable up to its expiry.
TokenUsableNoWindow(tok, exp, t) ==
    /\ tok # NoToken
    /\ exp # 0
    /\ exp > t

\* sessionToken && sessionTokenExpiry && sessionTokenExpiry - safetyWindow > now
TokenUsable(tok, exp, t) ==
    /\ tok # NoToken
    /\ exp # 0
    /\ exp - SafetyWindow > t


----------------------------------------------------------------------------
\* The debounce effect and the other effects of CreateAgent

\* setTimeout returns a handle no live timer and no stored reference uses.
NewHandle(c, ts) ==
    CHOOSE h \in 1..(Cardinality(ts) + 2) :
        /\ h # c.timeout
        /\ \A t \in ts : t.h # h
        /\ \A g \in 1..(h - 1) : g = c.timeout \/ \E t \in ts : t.h = g

\* clearTimeout(handle)
ClearTimeout(ts, h) == {t \in ts : t.h # h}

\* Variant: the handle is forgotten but the timer is not cleared.
ClearPendingKeepsTimer(st) ==
    IF st.controller.timeout # 0
    THEN [st EXCEPT !.controller.timeout = 0]
    ELSE st

\* if (controller.timeout) { clearTimeout(controller.timeout); controller.timeout = null; }
ClearPending(st) ==
    IF st.controller.timeout # 0
    THEN [st EXCEPT !.controller.timeout = 0,
                    !.timers = ClearTimeout(st.timers, st.controller.timeout)]
    ELSE st

\* Variant: the debounce effect returns no cleanup.
DebounceCleanupMissing(st) == st

\* The cleanup the debounce effect returned, run before the effect runs again
\* and at unmount.
DebounceCleanup(st) == IF st.cleanup THEN ClearPending(st) ELSE st

\* The effect that stops the pending preview once the user has sent a message.
RealMessageEffect(st, msgs) ==
    IF HasRealUser(msgs) THEN ClearPending(st) ELSE st

\* Variant: the body of the debounce effect without the comparison of the
\* hash with the recorded one.
PreviewDebounceEffectNoHashCheck(st, step, agent, aid, ref, cfg, tok, exp, t) ==
    IF step # 3 \/ agent = NoAgent \/ aid = NoAgent
    THEN [ClearPending(st) EXCEPT !.controller.hash = EmptyHash, !.cleanup = FALSE]
    ELSE IF HasRealUser(ref)
    THEN [st EXCEPT !.controller.hash = EmptyHash, !.cleanup = FALSE]
    ELSE LET cleared == IF st.controller.timeout # 0
                        THEN ClearTimeout(st.timers, st.controller.timeout)
                        ELSE st.timers
             h == NewHandle(st.controller, cleared)
         IN [controller |-> [st.controller EXCEPT !.timeout = h],
             timers |-> cleared \cup
                        {[h |-> h, deadline |-> t + DebounceMs, hash |-> Hash(cfg),
                          cfg |-> cfg, agent |-> agent, aid |-> aid,
                          tok |-> tok, exp |-> exp]},
             cleanup |-> TRUE]

\* Variant: the body of the debounce effect without the branch for a real
\* user message.
PreviewDebounceEffectNoRealCheck(st, step, agent, aid, ref, cfg, tok, exp, t) ==
    IF step # 3 \/ agent = NoAgent \/ aid = NoAgent
    THEN [ClearPending(st) EXCEPT !.controller.hash = EmptyHash, !.cleanup = FALSE]
    ELSE IF st.controller.hash = Hash(cfg)
    THEN [st EXCEPT !.cleanup = FALSE]
    ELSE LET cleared == IF st.controller.timeout # 0
                        THEN ClearTimeout(st.timers, st.controller.timeout)
                        ELSE st.timers
             h == NewHandle(st.controller, cleared)
         IN [controller |-> [st.controller EXCEPT !.timeout = h],
             timers |-> cleared \cup
                        {[h |-> h, deadline |-> t + DebounceMs, hash |-> Hash(cfg),
                          cfg |-> cfg, agent |-> agent, aid |-> aid,
                          tok |-> tok, exp |-> exp]},
             cleanup |-> TRUE]

\* The body of the debounce effect. st is the controller, the timers and the
\* cleanup flag before the run; the other parameters are the values of the
\* render the effect belongs to (they are what the timer callback closes over).
PreviewDebounceEffect(st, step, agent, aid, ref, cfg, tok, exp, t) ==
    IF step # 3 \/ agent = NoAgent \/ aid = NoAgent
    THEN [ClearPending(st) EXCEPT !.controller.hash = EmptyHash, !.cleanup = FALSE]
    ELSE IF HasRealUser(ref)
    THEN [st EXCEPT !.controller.hash = EmptyHash, !.cleanup = FALSE]
    ELSE IF st.controller.hash = Hash(cfg)
    THEN [st EXCEPT !.cleanup = FALSE]
    ELSE LET cleared == IF st.controller.timeout # 0
                        THEN ClearTimeout(st.timers, st.controller.timeout)
                        ELSE st.timers
             h == NewHandle(st.controller, cleared)
         IN [controller |-> [st.controller EXCEPT !.timeout = h],
             timers |-> cleared \cup
                        {[h |-> h, deadline |-> t + DebounceMs, hash |-> Hash(cfg),
                          cfg |-> cfg, agent |-> agent, aid |-> aid,
                          tok |-> tok, exp |-> exp]},
             cleanup |-> TRUE]

\* The render that follows a handler and its effects, in the order React runs
\* them: the cleanup of the debounce effect when one of its dependencies
\* changed, then messagesRef.current = messages and the real-message effect when
\* messages changed, then the body of the debounce effect. identity is TRUE
\* when the handler stored a new array of the same document ids.
RenderFrom(st0, identity) ==
    LET deps == <<config, agentId, createdAgent, currentStep, sessionToken,
                  sessionTokenExpiry>>
        rerun == identity \/ deps' # deps
        msgsChanged == messages' # messages
        st1 == IF rerun THEN DebounceCleanup(st0) ELSE st0
        ref == IF msgsChanged THEN messages' ELSE messagesRef
        st2 == IF msgsChanged THEN RealMessageEffect(st1, messages') ELSE st1
        st3 == IF rerun
               THEN PreviewDebounceEffect(st2, currentStep', createdAgent', agentId',
                                          ref, config', sessionToken',
                                          sessionTokenExpiry', now')
               ELSE st2
    IN /\ messagesRef' = ref
       /\ previewController' = st3.controller
       /\ timers' = st3.timers
       /\ hasCleanup' = st3.cleanup

Current == [controller |-> previewController, timers |-> timers, cleanup |-> hasCleanup]

Render(identity) == RenderFrom(Current, identity)


----------------------------------------------------------------------------
\* \* Observation of a burst of configuration changes (changes that each arrive
\* less than DebounceMs after the previous one, with step 3 shown, the agent
\* loaded and no real user message in the log): the number of changes, the
\* time of the last one, whether the hash of the configuration it stored
\* differs from the hash the controller had recorded, the round its timer
\* started, the chat requests of that round, whether each was built from
\* the configuration of the last change and sent DebounceMs or more after it,
\* whether the round's token could not be issued, and whether the burst began
\* after a round had failed for the hash the configuration and the controller
\* then had (afterFailure).

NoBurst == [n |-> 0, last |-> 0, differs |-> FALSE, round |-> -1, reqs |-> 0,
            final |-> TRUE, quiet |-> TRUE, failed |-> FALSE, afterFailure |-> FALSE]

PreviewShown == currentStep = 3 /\ createdAgent # NoAgent /\ agentId # NoAgent

\* A change that stores the values the configuration already has (a new
\* array of the same document ids) is no change of the configuration.
BurstAfterChange(cfg) ==
    LET d == Hash(cfg) # previewController.hash
    IN IF ~(PreviewShown /\ ~HasRealUser(messages)) THEN NoBurst
       ELSE IF cfg = config THEN burst
       ELSE IF burst.n > 0 /\ burst.round < 0 /\ now - burst.last < DebounceMs
       THEN [burst EXCEPT !.n = burst.n + 1, !.last = now, !.differs = d]
       ELSE [NoBurst EXCEPT !.n = 1, !.last = now, !.differs = d,
                            !.afterFailure = /\ outcome.how = "error" /\ outcome.same
                                             /\ previewController.hash = outcome.hash]

\* The preview round that ended last: how it ended ("reply", "error", or
\* "discarded" when its outcome was not written), the time it started at (n),
\* the hash of its configuration, whether its chat request was sent before the user's first
\* message (raced), whether the configuration has the round's hash (same),
\* whether the same values have been stored again since (evaluated), and
\* whether the document ids have been stored in another order (reordered). The
\* observation of a round that ended with a reply is kept while no round has
\* started since and the hash of the configuration is still the round's; the
\* one of a round that failed is kept until the next round starts.
NoOutcome == [how |-> "none", n |-> -1, hash |-> EmptyHash, raced |-> FALSE,
              same |-> FALSE, evaluated |-> FALSE, reordered |-> FALSE]

OutcomeOf(r, how) ==
    [how |-> IF HasRealUser(messagesRef) THEN "discarded" ELSE how,
     n |-> r.n, hash |-> Hash(r.cfg),
     raced |-> r.stage = "chat" /\ ~r.realAtSend /\ HasRealUser(messagesRef),
     same |-> Hash(r.cfg) = Hash(config), evaluated |-> FALSE, reordered |-> FALSE]

\* Whether the last step dropped the pending timer without firing it and
\* without putting a new one in its place, and why: "step" (step 3 left or agent not available),
\* "real" (the user sent a message), "settled" (the configuration went back
\* to the recorded hash), "unmount".
NoCancel == "none"

CancelAfter(cause) == IF timers # {} /\ timers' = {} THEN cause ELSE NoCancel

\* The observation of the last outcome after a step that ends no round.
OutcomeKept ==
    IF outcome.how = "reply" /\ outcome.same /\ Hash(config') = outcome.hash
    THEN outcome
    ELSE IF outcome.how = "error"
    THEN [outcome EXCEPT !.same = @ /\ Hash(config') = outcome.hash]
    ELSE NoOutcome


\* A chat request of the round that started at time n was sent with
\* configuration hash h.
BurstAfterRequest(b, n, h) ==
    IF b.n > 0 /\ b.round = n
    THEN [b EXCEPT !.reqs = b.reqs + 1,
                   !.final = b.final /\ h = Hash(config),
                   !.quiet = b.quiet /\ now >= b.last + DebounceMs]
    ELSE b

\* The token issuer failed the round that started at time n.
BurstAfterFailure(b, n) ==
    IF b.n > 0 /\ b.round = n THEN [b EXCEPT !.failed = TRUE] ELSE b

----------------------------------------------------------------------------
\* CreateAgent: handlers of the user and of the data layer

\* No response is on its way, no call of the session-token route is made.
NoResponse == [stage |-> "none"]

NoProxyCall == [stage |-> "none"]

\* authStore: null for the user, the token and the current organization.
NoUser == 0

NoAuthToken == ""

NoOrg == 0

\* The initial state of useAuthStore, with the token that persist restores
\* from storage (partialize keeps the token only).
StoreInitial(tok) ==
    [user |-> NoUser, token |-> tok, organizations |-> <<>>,
     currentOrganization |-> NoOrg, isAuthenticated |-> FALSE, isLoading |-> TRUE]

AuthIdle ==
    /\ authStore = StoreInitial(NoAuthToken)
    /\ authCalls = {}

\* CreateAgent before it is opened.
NoWizard == [mount |-> 0, key |-> 0, step |-> 1, agentId |-> 0, submits |-> 0, org |-> FALSE]

WizardIdle ==
    /\ wizard = NoWizard
    /\ createRequests = EmptyBag
    /\ backendAgents = {}

\* ThemeToggle before it is mounted.
NoToggle == [mounted |-> FALSE, listening |-> FALSE, title |-> ""]

\* uiStore with its initial theme, ThemeToggle not mounted.
UiIdle ==
    /\ theme = "system"
    /\ darkClass = FALSE
    /\ prefersDark = FALSE
    /\ themeToggle = NoToggle
    /\ clickRun = [from |-> "system", n |-> 0]

\* The discovery of step 2 before the page is opened: no task, nothing in
\* flight, no run of the polling effect.
NoCrawl == [mount |-> 0, mounted |-> FALSE, discovering |-> FALSE, taskId |-> 0,
            enqueuing |-> FALSE, made |-> 0]

CrawlIdle ==
    /\ crawl = NoCrawl
    /\ pollers = {}

\* The rest of the application at rest.
AppIdle ==
    /\ apiResponse = NoResponse
    /\ proxyCall = NoProxyCall
    /\ AuthIdle
    /\ WizardIdle
    /\ UiIdle
    /\ CrawlIdle

\* The useState initial values of the ten tunables (expertiseLevel in tenths).
InitialConfig ==
    [domainEnabled |-> TRUE, selectedPersona |-> "support_expert",
     selectedDocs |-> <<>>, webSearchEnabled |-> FALSE, siteWhitelist |-> "",
     groundingMode |-> "blended", expertiseLevel |-> 7, additionalContext |-> "",
     personaOverrides |-> "", domain |-> "saas"]

PagesInit ==
    /\ now = 0
    /\ mounted = TRUE
    /\ currentStep = 1
    /\ agentId = NoAgent
    /\ createdAgent = NoAgent
    /\ config = InitialConfig
    /\ messages = <<>>
    /\ sessionToken = NoToken
    /\ sessionTokenExpiry = 0
    /\ messagesRef = <<>>
    /\ previewController = [timeout |-> 0, hash |-> EmptyHash]
    /\ timers = {}
    /\ hasCleanup = FALSE
    /\ previewRuns = {}
    /\ manualSends = {}
    /\ changes = 0
    /\ burst = NoBurst
    /\ outcome = NoOutcome
    /\ cancelled = NoCancel
    /\ chatAgent = NoAgent
    /\ isLoading = FALSE
    /\ conversationId = 0
    /\ chatSends = {}

Init ==
    /\ PagesInit
    /\ route \in {"create", "chat"}
    /\ AppIdle

\* onSubmitBasicInfo, at the answer of the create request: the backend answers
\* with agent a. useAgent has no data for an agent id it has not loaded.
SubmitBasicInfo(a) ==
    /\ mounted /\ currentStep = 1
    /\ agentId' = a
    /\ createdAgent' = IF a = agentId THEN createdAgent ELSE NoAgent
    /\ currentStep' = 2
    /\ UNCHANGED <<now, mounted, config, messages, sessionToken, sessionTokenExpiry,
                   previewRuns, manualSends, changes>>
    /\ Render(FALSE)
    /\ burst' = NoBurst
    /\ outcome' = OutcomeKept
    /\ cancelled' = CancelAfter("step")

\* useAgent(agentId) delivers the agent record.
AgentLoaded ==
    /\ mounted /\ agentId # NoAgent /\ createdAgent = NoAgent
    /\ createdAgent' = agentId
    /\ UNCHANGED <<now, mounted, currentStep, agentId, config, messages, sessionToken,
                   sessionTokenExpiry, previewRuns, manualSends, changes>>
    /\ Render(FALSE)
    /\ burst' = NoBurst
    /\ outcome' = OutcomeKept
    /\ cancelled' = CancelAfter("step")

\* The step buttons: handleUploadDocuments (2 -> 3), Back (3 -> 2),
\* handleComplete (3 -> 4). Back from step 2 to step 1 is left out: to the
\* preview controller steps 1 and 2 are the same (currentStep !== 3).
GoToStep(from, to) ==
    /\ mounted /\ currentStep = from
    /\ to = 3 => agentId # NoAgent
    /\ currentStep' = to
    /\ UNCHANGED <<now, mounted, agentId, createdAgent, config, messages, sessionToken,
                   sessionTokenExpiry, previewRuns, manualSends, changes>>
    /\ Render(FALSE)
    /\ burst' = NoBurst
    /\ outcome' = OutcomeKept
    /\ cancelled' = CancelAfter("step")

StepChange ==
    \/ GoToStep(2, 3)
    \/ GoToStep(3, 2)
    \/ GoToStep(3, 4)

\* A handler stores a new configuration.
ChangeConfig(cfg, identity) ==
    /\ mounted
    /\ changes < MaxChanges
    /\ changes' = changes + 1
    /\ config' = cfg
    /\ UNCHANGED <<now, mounted, currentStep, agentId, createdAgent, messages,
                   sessionToken, sessionTokenExpiry, previewRuns, manualSends>>
    /\ Render(identity)
    /\ burst' = BurstAfterChange(cfg)
    /\ outcome' = IF OutcomeKept.how # "reply" THEN OutcomeKept
                  ELSE [outcome EXCEPT !.evaluated = TRUE,
                                       !.reordered = @ \/ cfg.selectedDocs # config.selectedDocs]
    /\ cancelled' = CancelAfter("settled")

\* onChange of the "Enable domain expertise" checkbox
ToggleDomainEnabled ==
    /\ currentStep = 3
    /\ ChangeConfig([config EXCEPT !.domainEnabled = ~config.domainEnabled], FALSE)

\* onChange of a document checkbox:
\* prev.includes(id) ? prev.filter(x => x !== id) : [...prev, id]
ToggleDoc(d) ==
    /\ currentStep = 3 /\ config.domainEnabled
    /\ ChangeConfig([config EXCEPT !.selectedDocs =
                        IF d \in Range(@) THEN SelectSeq(@, LAMBDA x : x # d)
                        ELSE Append(@, d)], FALSE)

\* The orders in which the data layer lists the documents of the agent.
DocOrders == {<<1, 2>>, <<2, 1>>}

\* The effect on docs: if (docs.length > 0) setSelectedDocs(docs.map(d => d.id)).
\* useDocuments delivers the documents of the agent (again): a new array, in
\* the order ds.
DocsLoaded(ds) ==
    /\ agentId # NoAgent
    /\ ChangeConfig([config EXCEPT !.selectedDocs = ds], TRUE)

----------------------------------------------------------------------------
\* CreateAgent: the session token cache

\* ensureAgentSessionToken up to its await: "throw" (agent not ready), "cached"
\* (the cached token is returned, no network call) or "call" (the issuer is
\* called). aid, agent, tok, exp are the values the callback closes over.
EnsureOutcome(aid, agent, tok, exp, t) ==
    IF aid = NoAgent \/ agent = NoAgent THEN "throw"
    ELSE IF TokenUsable(tok, exp, t) THEN "cached"
    ELSE "call"

\* The token of an answer of the issuer: an opaque string, told apart here by
\* the agent it was asked for and by the expiry its answer gives it.
IssuedToken(aid, exp) == [for |-> aid, exp |-> exp]

\* setSessionTokenExpiry(Date.now() + expiresIn * 1000)
NewExpiry(t, expiresIn) == t + expiresIn * 1000

\* Variant: the chat request is sent whatever the issuer answered.
AfterIssuerChatAnyway(call, ok, sent) == {[call EXCEPT !.stage = "chat"]}

\* Variant: a failed call of the issuer is made again.
AfterIssuerRetried(call, ok, sent) == IF ok THEN {sent} ELSE {call}

\* What is pending in place of a call of the issuer once it is answered: the
\* chat request `sent` when it returned a token, and nothing when it failed
\* (`await api.post` rejects, ensureAgentSessionToken has no catch, and the
\* rejection reaches the catch of the caller).
AfterIssuer(call, ok, sent) == IF ok THEN {sent} ELSE {}

\* A state setter of an unmounted component does nothing.
SetState(cur, new) == IF mounted THEN new ELSE cur

----------------------------------------------------------------------------
\* CreateAgent: the automatic preview (runAutoPreview)

\* The two guards at the head of runAutoPreview.
PreviewMayStart(agent, ref) == agent # NoAgent /\ ~HasRealUser(ref)

PreviewUserMessage(cfg) == Msg("preview-user", "user", PreviewPrompt(cfg))

PreviewReply(cfg) ==
    Msg("preview-assistant", "assistant", [PreviewPrompt(cfg) EXCEPT !.kind = "reply"])

PreviewError == Msg("preview-error", "assistant", Text("unavailable"))

\* Variant: the outcome is written without looking for a real user message.
LogAfterPreviewUnchecked(ref, cur, pum, m) == <<pum, m>>

\* Variant: the outcome is added to the log instead of replacing it.
LogAfterPreviewMerged(ref, cur, pum, m) ==
    IF HasRealUser(ref) THEN cur ELSE cur \o <<pum, m>>

\* Variant: a failure of the round writes the prompt again, without a message.
LogAfterPreviewPromptOnly(ref, cur, pum, m) ==
    IF HasRealUser(ref) THEN cur ELSE IF m = PreviewError THEN <<pum>> ELSE <<pum, m>>

\* Variant: a failure of the round is swallowed without a message.
LogAfterPreviewSilent(ref, cur, pum, m) ==
    IF HasRealUser(ref) \/ m = PreviewError THEN cur ELSE <<pum, m>>

\* The write of the round's outcome m (the reply or the error message): it is
\* skipped when the user has sent a message in the meantime.
LogAfterPreview(ref, cur, pum, m) ==
    IF HasRealUser(ref) THEN cur ELSE <<pum, m>>

\* Variant: the timer callback leaves the recorded hash alone.
RecordHashSkipped(c, h) == c

\* controller.hash = hash, the first statement of the timer callback
RecordHash(c, h) == [c EXCEPT !.hash = h]

\* The timer callback: controller.hash = hash; runAutoPreview(). A round is
\* named by the time it started at.
TimerFire(t) ==
    LET fired == [controller |-> RecordHash(previewController, t.hash),
                  timers |-> timers \ {t}, cleanup |-> hasCleanup]
        started == PreviewMayStart(t.agent, messagesRef)
        pum == PreviewUserMessage(t.cfg)
        out == EnsureOutcome(t.aid, t.agent, t.tok, t.exp, now)
        run == [n |-> now, stage |-> "token", agent |-> t.agent, aid |-> t.aid,
                cfg |-> t.cfg, token |-> NoToken, realAtSend |-> FALSE]
        b == IF burst.n > 0 /\ burst.round < 0 THEN [burst EXCEPT !.round = now]
             ELSE burst
    IN /\ t \in timers
       /\ now >= t.deadline
       /\ UNCHANGED <<now, mounted, currentStep, agentId, createdAgent, config,
                      sessionToken, sessionTokenExpiry, manualSends, changes>>
       /\ cancelled' = NoCancel
       /\ outcome' = IF started THEN NoOutcome ELSE OutcomeKept
       /\ IF ~started
          THEN /\ UNCHANGED <<messages, previewRuns>>
               /\ burst' = NoBurst
          ELSE CASE out = "throw" ->
                    /\ messages' = SetState(messages,
                            LogAfterPreview(messagesRef, <<pum>>, pum, PreviewError))
                    /\ UNCHANGED previewRuns
                    /\ burst' = BurstAfterFailure(b, now)
                [] out = "cached" ->
                    /\ messages' = SetState(messages, <<pum>>)
                    /\ previewRuns' = previewRuns \cup
                          {[run EXCEPT !.stage = "chat", !.token = t.tok]}
                    /\ burst' = BurstAfterRequest(b, now, t.hash)
                [] out = "call" ->
                    /\ messages' = SetState(messages, <<pum>>)
                    /\ previewRuns' = previewRuns \cup {run}
                    /\ burst' = b
       /\ RenderFrom(fired, FALSE)

\* The answer of the token issuer to a preview round: expires_in = e on
\* success, an error otherwise.
PreviewIssuerResponse(r, ok, e) ==
    LET tok == IssuedToken(r.aid, NewExpiry(now, e))
    IN /\ mounted
       /\ r \in previewRuns /\ r.stage = "token"
       /\ UNCHANGED <<now, mounted, currentStep, agentId, createdAgent, config,
                      manualSends, changes>>
       /\ IF ok
          THEN /\ sessionToken' = SetState(sessionToken, tok)
               /\ sessionTokenExpiry' = SetState(sessionTokenExpiry, NewExpiry(now, e))
               /\ previewRuns' = (previewRuns \ {r}) \cup
                     AfterIssuer(r, ok, [r EXCEPT !.stage = "chat", !.token = tok,
                                                  !.realAtSend = HasRealUser(messages)])
               /\ UNCHANGED messages
               /\ burst' = BurstAfterRequest(burst, r.n, Hash(r.cfg))
               /\ outcome' = OutcomeKept
          ELSE /\ messages' = SetState(messages,
                     LogAfterPreview(messagesRef, messages, PreviewUserMessage(r.cfg),
                                     PreviewError))
               /\ previewRuns' = (previewRuns \ {r}) \cup AfterIssuer(r, ok, r)
               /\ UNCHANGED <<sessionToken, sessionTokenExpiry>>
               /\ burst' = BurstAfterFailure(burst, r.n)
               /\ outcome' = OutcomeOf(r, "error")
       /\ Render(FALSE)
       /\ cancelled' = CancelAfter("settled")

\* The answer of the chat endpoint to a preview round.
PreviewChatResponse(r, ok) ==
    /\ mounted
    /\ r \in previewRuns /\ r.stage = "chat"
    /\ messages' = SetState(messages,
          LogAfterPreview(messagesRef, messages, PreviewUserMessage(r.cfg),
                          IF ok THEN PreviewReply(r.cfg) ELSE PreviewError))
    /\ previewRuns' = previewRuns \ {r}
    /\ UNCHANGED <<now, mounted, currentStep, agentId, createdAgent, config,
                   sessionToken, sessionTokenExpiry, manualSends,
                   changes, burst>>
    /\ Render(FALSE)
    /\ outcome' = OutcomeOf(r, IF ok THEN "reply" ELSE "error")
    /\ cancelled' = CancelAfter("settled")

----------------------------------------------------------------------------
\* CreateAgent: the manual test message (sendTestMessage)

UserMessage == Msg("", "user", Text("text"))

ManualReply == Msg("", "assistant", Text("reply"))

ManualError == Msg("", "assistant", Text("error"))

\* Variant: the message is stored as the whole log, setMessages([m]).
AppendMessageAlone(cur, m) == <<m>>

\* setMessages((p) => [...p, m])
AppendMessage(cur, m) == Append(cur, m)

RealUserCount(msgs) == Cardinality({i \in DOMAIN msgs : IsRealUser(msgs[i])})

\* sendTestMessage up to its first await that suspends. A send is named by
\* the number of its message among the user's messages.
SendTestMessage ==
    LET n == RealUserCount(messages) + 1
        out == EnsureOutcome(agentId, createdAgent, sessionToken, sessionTokenExpiry, now)
        send == [n |-> n, stage |-> "token", agent |-> createdAgent, aid |-> agentId,
                 token |-> NoToken]
    IN /\ mounted /\ currentStep = 3 /\ createdAgent # NoAgent
       /\ n <= MaxSends
       /\ UNCHANGED <<now, mounted, currentStep, agentId, createdAgent, config,
                      sessionToken, sessionTokenExpiry, previewRuns, changes>>
       /\ CASE out = "throw" ->
                /\ messages' = AppendMessage(AppendMessage(messages, UserMessage), ManualError)
                /\ UNCHANGED manualSends
            [] out = "cached" ->
                /\ messages' = AppendMessage(messages, UserMessage)
                /\ manualSends' = manualSends \cup
                      {[send EXCEPT !.stage = "chat", !.token = sessionToken]}
            [] out = "call" ->
                /\ messages' = AppendMessage(messages, UserMessage)
                /\ manualSends' = manualSends \cup {send}
       /\ Render(FALSE)
       /\ burst' = NoBurst
       /\ outcome' = OutcomeKept
       /\ cancelled' = CancelAfter("real")

\* The answer of the token issuer to a manual send.
ManualIssuerResponse(m, ok, e) ==
    LET tok == IssuedToken(m.aid, NewExpiry(now, e))
    IN /\ mounted
       /\ m \in manualSends /\ m.stage = "token"
       /\ UNCHANGED <<now, mounted, currentStep, agentId, createdAgent, config,
                      previewRuns, changes, burst>>
       /\ IF ok
          THEN /\ sessionToken' = SetState(sessionToken, tok)
               /\ sessionTokenExpiry' = SetState(sessionTokenExpiry, NewExpiry(now, e))
               /\ manualSends' = (manualSends \ {m}) \cup
                     AfterIssuer(m, ok, [m EXCEPT !.stage = "chat", !.token = tok])
               /\ UNCHANGED messages
          ELSE /\ messages' = SetState(messages, AppendMessage(messages, ManualError))
               /\ manualSends' = (manualSends \ {m}) \cup AfterIssuer(m, ok, m)
               /\ UNCHANGED <<sessionToken, sessionTokenExpiry>>
       /\ Render(FALSE)
       /\ outcome' = OutcomeKept
       /\ cancelled' = CancelAfter("settled")

\* The answer of the chat endpoint to a manual send.
ManualChatResponse(m, ok) ==
    /\ mounted
    /\ m \in manualSends /\ m.stage = "chat"
    /\ messages' = SetState(messages,
          AppendMessage(messages, IF ok THEN ManualReply ELSE ManualError))
    /\ manualSends' = manualSends \ {m}
    /\ UNCHANGED <<now, mounted, currentStep, agentId, createdAgent, config,
                   sessionToken, sessionTokenExpiry, previewRuns,
                   changes, burst>>
    /\ Render(FALSE)
    /\ outcome' = OutcomeKept
    /\ cancelled' = CancelAfter("settled")

----------------------------------------------------------------------------
\* CreateAgent: teardown, and the passage of time

\* The component unmounts: the cleanup of the debounce effect runs, and the
\* state of the component is destroyed with it (it is put back to its initial
\* values here). What outlives the view is the controller object as the
\* cleanup left it and any timer the cleanup did not clear; the answers that
\* arrive afterwards find no state to write to and are not followed further.
Unmount ==
    LET st == DebounceCleanup(Current)
    IN /\ mounted
       /\ mounted' = FALSE
       /\ previewController' = st.controller
       /\ timers' = st.timers
       /\ hasCleanup' = FALSE
       /\ currentStep' = 1
       /\ agentId' = NoAgent
       /\ createdAgent' = NoAgent
       /\ config' = InitialConfig
       /\ messages' = <<>>
       /\ messagesRef' = <<>>
       /\ sessionToken' = NoToken
       /\ sessionTokenExpiry' = 0
       /\ previewRuns' = {}
       /\ manualSends' = {}
       /\ changes' = 0
       /\ burst' = NoBurst
       /\ outcome' = NoOutcome
       /\ cancelled' = CancelAfter("unmount")
       /\ UNCHANGED now

\* The clock is read only relative to a pending timer, to the expiry of the
\* cached token and to the last change of a burst: while none of them lies
\* ahead, the passage of time changes nothing and is left out.
TimeObserved ==
    \/ timers # {}
    \/ TokenUsable(sessionToken, sessionTokenExpiry, now)
    \/ burst.n > 0 /\ now < burst.last + DebounceMs

\* Time passes, up to the deadline of the next timer: a timer that is due
\* fires before the clock moves on.
Tick ==
    LET due == {t.deadline : t \in timers}
        next == now + TickMs
    IN /\ now < MaxTicks * TickMs
       /\ mounted \/ timers # {}
       /\ TimeObserved
       /\ \A d \in due : d > now
       /\ now' = IF \E d \in due : d < next
                 THEN CHOOSE d \in due : \A x \in due : d <= x
                 ELSE next
       /\ UNCHANGED <<mounted, currentStep, agentId, createdAgent, config, messages,
                      sessionToken, sessionTokenExpiry, messagesRef,
                      previewController, timers, hasCleanup, previewRuns,
                      manualSends, changes, burst, outcome, route, chatAgent,
                      isLoading, conversationId, chatSends, appVars>>
       /\ cancelled' = NoCancel

----------------------------------------------------------------------------
\* AgentChatPage (the chat page of an existing agent). It has its own
\* messages, sessionToken and sessionTokenExpiry; one page is mounted at a
\* time, and the variables of these names hold the state of the mounted one.

ChatAgents == {1, 2}

ConversationIds == {1}

\* The welcome message of agent a.
Welcome(a) == Msg("welcome", "assistant", [Text("welcome") EXCEPT !.docCount = a])

\* The effect on [agent, messages.length]:
\* if (agent && messages.length === 0) setMessages([welcome])
WelcomeEffect(a, msgs) == IF a # NoAgent /\ msgs = <<>> THEN <<Welcome(a)>> ELSE msgs

\* The variables of CreateAgent, which the chat page leaves alone.
createVars == <<currentStep, agentId, createdAgent, config, messagesRef,
                previewController, timers, hasCleanup, previewRuns, manualSends,
                changes, burst, outcome, cancelled, appVars>>

\* useAgent delivers another agent, or none while the next one loads. The
\* effect on [agent?.public_id] clears the cached token, the welcome effect
\* fills an empty log.
AgentChanged(a) ==
    /\ route = "chat" /\ mounted
    /\ a # chatAgent
    /\ chatAgent' = a
    /\ sessionToken' = NoToken
    /\ sessionTokenExpiry' = 0
    /\ messages' = WelcomeEffect(a, messages)
    /\ UNCHANGED <<now, mounted, route, isLoading, conversationId, chatSends, createVars>>

\* sendMessage up to its first await that suspends. The route parameter
\* agentId and the loaded agent name the same agent.
SendMessage ==
    LET n == RealUserCount(messages) + 1
        out == EnsureOutcome(chatAgent, chatAgent, sessionToken, sessionTokenExpiry, now)
        send == [n |-> n, stage |-> "token", agent |-> chatAgent, aid |-> chatAgent,
                 token |-> NoToken, conv |-> conversationId]
    IN /\ route = "chat" /\ mounted
       /\ ~isLoading /\ chatAgent # NoAgent
       /\ n <= MaxSends
       /\ messages' = AppendMessage(messages, UserMessage)
       /\ isLoading' = TRUE
       /\ chatSends' = chatSends \cup
             {IF out = "cached"
              THEN [send EXCEPT !.stage = "chat", !.token = sessionToken]
              ELSE send}
       /\ UNCHANGED <<now, mounted, route, chatAgent, conversationId, sessionToken,
                      sessionTokenExpiry, createVars>>

\* The answer of the token issuer to a sendMessage call.
ChatIssuerResponse(c, ok, e) ==
    LET tok == IssuedToken(c.aid, NewExpiry(now, e))
    IN /\ route = "chat" /\ mounted
       /\ c \in chatSends /\ c.stage = "token"
       /\ IF ok
          THEN /\ sessionToken' = tok
               /\ sessionTokenExpiry' = NewExpiry(now, e)
               /\ chatSends' = (chatSends \ {c}) \cup
                     AfterIssuer(c, ok, [c EXCEPT !.stage = "chat", !.token = tok])
               /\ UNCHANGED <<messages, isLoading>>
          ELSE /\ messages' = AppendMessage(messages, ManualError)
               /\ isLoading' = FALSE
               /\ chatSends' = (chatSends \ {c}) \cup AfterIssuer(c, ok, c)
               /\ UNCHANGED <<sessionToken, sessionTokenExpiry>>
       /\ UNCHANGED <<now, mounted, route, chatAgent, conversationId, createVars>>

\* The answer of the chat endpoint to a sendMessage call; conv is the
\* conversation_id of the answer (0: none).
ChatResponse(c, ok, conv) ==
    /\ route = "chat" /\ mounted
    /\ c \in chatSends /\ c.stage = "chat"
    /\ messages' = AppendMessage(messages, IF ok THEN ManualReply ELSE ManualError)
    /\ conversationId' = IF ok /\ conv # 0 THEN conv ELSE conversationId
    /\ isLoading' = FALSE
    /\ chatSends' = chatSends \ {c}
    /\ UNCHANGED <<now, mounted, route, chatAgent, sessionToken, sessionTokenExpiry,
                   createVars>>

\* clearChat
ClearChat ==
    /\ route = "chat" /\ mounted
    /\ messages' = IF chatAgent # NoAgent THEN <<Welcome(chatAgent)>> ELSE <<>>
    /\ conversationId' = 0
    /\ UNCHANGED <<now, mounted, route, chatAgent, isLoading, sessionToken,
                   sessionTokenExpiry, chatSends, createVars>>

\* A step of CreateAgent leaves the chat page's variables alone.
OnCreate ==
    /\ route = "create"
    /\ UNCHANGED <<route, chatAgent, isLoading, conversationId, chatSends, appVars>>

Next ==
    \/ OnCreate /\ \E a \in AgentIds : SubmitBasicInfo(a)
    \/ OnCreate /\ AgentLoaded
    \/ OnCreate /\ StepChange
    \/ OnCreate /\ ToggleDomainEnabled
    \/ OnCreate /\ \E d \in DocIds : ToggleDoc(d)
    \/ OnCreate /\ \E ds \in DocOrders : DocsLoaded(ds)
    \/ OnCreate /\ SendTestMessage
    \/ OnCreate /\ \E t \in timers : TimerFire(t)
    \/ OnCreate /\ \E r \in previewRuns, ok \in BOOLEAN, e \in ExpiresInChoices :
          PreviewIssuerResponse(r, ok, e)
    \/ OnCreate /\ \E r \in previewRuns, ok \in BOOLEAN : PreviewChatResponse(r, ok)
    \/ OnCreate /\ \E m \in manualSends, ok \in BOOLEAN, e \in ExpiresInChoices :
          ManualIssuerResponse(m, ok, e)
    \/ OnCreate /\ \E m \in manualSends, ok \in BOOLEAN : ManualChatResponse(m, ok)
    \/ OnCreate /\ Unmount
    \/ \E a \in ChatAgents \cup {NoAgent} : AgentChanged(a)
    \/ SendMessage
    \/ \E c \in chatSends, ok \in BOOLEAN, e \in ExpiresInChoices :
          ChatIssuerResponse(c, ok, e)
    \/ \E c \in chatSends, ok \in BOOLEAN, conv \in ConversationIds \cup {0} :
          ChatResponse(c, ok, conv)
    \/ ClearChat
    \/ Tick

Spec == Init /\ [][Next]_vars

\* The network calls of a preview round resolve or fail: a pending answer of
\* the issuer or of the chat endpoint arrives.
PreviewAnswered ==
    /\ OnCreate
    /\ \/ \E r \in previewRuns, ok \in BOOLEAN, e \in ExpiresInChoices :
             PreviewIssuerResponse(r, ok, e)
       \/ \E r \in previewRuns, ok \in BOOLEAN : PreviewChatResponse(r, ok)

\* The program with every network call of a preview round answered in the end.
SpecAnswered == Spec /\ WF_vars(PreviewAnswered)

----------------------------------------------------------------------------
\* The API client (src/lib/api.ts): the response interceptor
\*
\* A JSON value is modelled two levels deep. An item is a value inside the
\* response data: an object, given by the names of its fields and by which
\* of them hold the text '[REDACTED]', or something that is no object (null,
\* a string, a number). The response data is an array of items, an object
\* (with its own fields, and with the items its fields agent and crm hold),
\* or something else.

MaxItems == 2            \* the longest array of a response

ItemNames == {"api_key", "webhook_secret", "auth"}

NotObject == [obj |-> FALSE, fields |-> {}, masked |-> {}]

Items == {NotObject} \cup {[obj |-> TRUE, fields |-> f, masked |-> {}] : f \in SUBSET ItemNames}

ArrayData(items) ==
    [t |-> "array", items |-> items, fields |-> {}, masked |-> {},
     agent |-> NotObject, crm |-> NotObject]

ObjectData(fields, agent, crm) ==
    [t |-> "object", items |-> <<>>, fields |-> fields, masked |-> {},
     agent |-> agent, crm |-> crm]

OtherData == [t |-> "other", items |-> <<>>, fields |-> {}, masked |-> {},
              agent |-> NotObject, crm |-> NotObject]

\* The data of the responses of the backend.
ResponseData ==
    {OtherData}
    \cup {ArrayData(items) : items \in UNION {[1..n -> Items] : n \in 0..MaxItems}}
    \cup UNION {{ObjectData(f, a, c) :
                    a \in (IF "agent" \in f THEN Items ELSE {NotObject}),
                    c \in (IF "crm" \in f THEN Items ELSE {NotObject})} :
                 f \in SUBSET (ItemNames \cup {"agent", "crm"})}

\* The URLs of the requests, by their path segments.
AgentsPrefix == <<"api", "v1", "agents">>

CrmPart == <<"integrations", "crm">>

Urls ==
    {<<"api", "v1", "agents">>,
     <<"api", "v1", "agents", "1">>,
     <<"api", "v1", "agents", "1", "integrations", "crm">>,
     <<"api", "v1", "organizations", "1", "integrations", "crm">>,
     <<"api", "v1", "documents", "agent", "1">>}

\* url.startsWith(prefix)
StartsWith(url, prefix) ==
    Len(url) >= Len(prefix) /\ SubSeq(url, 1, Len(prefix)) = prefix

\* url.includes(part)
Includes(url, part) ==
    \E i \in 1..Len(url) :
        i + Len(part) - 1 <= Len(url) /\ SubSeq(url, i, i + Len(part) - 1) = part

\* Variant: redact returns the agent with its api_key.
RedactSkipped(agent) == agent

\* redact: if (agent && typeof agent === 'object') delete agent.api_key
Redact(agent) ==
    IF agent.obj
    THEN [agent EXCEPT !.fields = @ \ {"api_key"}, !.masked = @ \ {"api_key"}]
    ELSE agent

\* sanitizeCRM: webhook_secret and auth, where present, become '[REDACTED]'
SanitizeCRM(crm) ==
    IF crm.obj
    THEN [crm EXCEPT !.masked = @ \cup (crm.fields \cap {"webhook_secret", "auth"})]
    ELSE crm

\* The response data itself as the object redact and sanitizeCRM are given.
AsItem(d) == [obj |-> TRUE, fields |-> d.fields, masked |-> d.masked]

WithItem(d, item) == [d EXCEPT !.fields = item.fields, !.masked = item.masked]

\* The first block of the interceptor, for a URL under /api/v1/agents.
RedactAgents(d) ==
    IF d.t = "array"
    THEN [d EXCEPT !.items = [i \in DOMAIN d.items |-> Redact(d.items[i])]]
    ELSE IF d.t = "object"
    THEN IF "agent" \in d.fields
         THEN [d EXCEPT !.agent = Redact(d.agent)]
         ELSE WithItem(d, Redact(AsItem(d)))
    ELSE d

\* The second block, for a URL that has /integrations/crm in it. (An array
\* is an object to typeof, and has neither of the three fields.)
RedactCrm(d) ==
    IF d.t = "object"
    THEN IF "crm" \in d.fields
         THEN [d EXCEPT !.crm = SanitizeCRM(d.crm)]
         ELSE WithItem(d, SanitizeCRM(AsItem(d)))
    ELSE d

\* api.interceptors.response.use((response) => ...): the data the caller gets.
Interceptor(url, d) ==
    LET d1 == IF StartsWith(url, AgentsPrefix) THEN RedactAgents(d) ELSE d
    IN IF Includes(url, CrmPart) THEN RedactCrm(d1) ELSE d1

\* A response of the backend arrives for a request of the API client.
ApiInit ==
    apiResponse \in {[stage |-> "arrived", url |-> u, raw |-> d, data |-> d] :
                        u \in Urls, d \in ResponseData}

\* The interceptor runs and the response is handed to the caller.
ApiResponded ==
    /\ route = "api"
    /\ apiResponse.stage = "arrived"
    /\ apiResponse' = [apiResponse EXCEPT
                          !.stage = "handed",
                          !.data = Interceptor(apiResponse.url, apiResponse.raw)]
    /\ UNCHANGED <<route, pageVars, crawlVars, proxyCall, authVars, wizardVars, uiVars>>

----------------------------------------------------------------------------
\* The session-token route (POST /api/agents/[id]/session-token), which runs
\* on the server

OkStatus == 200

\* The answers of the backend to the two requests of the route: a status,
\* and for the agent its public_id and api_key ("" when it has none), for
\* the issuer its payload.
AgentAnswers ==
    [status : {OkStatus, 404}, public_id : {"", "pub-1"}, api_key : {"", "sk-1"}]

TokenPayloads == {[token |-> "t-1", expires_in |-> 6], [token |-> "t-2", expires_in |-> 0]}

TokenAnswers == [status : {OkStatus, 401}, payload : TokenPayloads]

\* Where a fetch of the route throws, if one does.
Faults == {"none", "agent", "token"}

\* NextResponse.json({ error, details }, { status })
ErrorReply(status, error, details) ==
    [status |-> status,
     body |-> [error |-> error, details |-> details, token |-> "", expires_in |-> 0]]

\* NextResponse.json(token, { status: 200 })
TokenReply(payload) ==
    [status |-> OkStatus,
     body |-> [error |-> "", details |-> "", token |-> payload.token,
               expires_in |-> payload.expires_in]]

\* Variant: the route answers with the agent's key next to the token.
ProxyPostLeaky(agentRes, tokenRes, fault) ==
    [status |-> OkStatus,
     body |-> [error |-> "", details |-> agentRes.api_key, token |-> tokenRes.payload.token,
               expires_in |-> tokenRes.payload.expires_in]]

\* POST: the reply of the route.
ProxyPost(agentRes, tokenRes, fault) ==
    IF fault = "agent" THEN ErrorReply(500, "Internal error", "fetch failed")
    ELSE IF agentRes.status # OkStatus
    THEN ErrorReply(agentRes.status, "Failed to load agent", "")
    ELSE IF agentRes.public_id = "" \/ agentRes.api_key = ""
    THEN ErrorReply(400, "Agent missing credentials", "")
    ELSE IF fault = "token" THEN ErrorReply(500, "Internal error", "fetch failed")
    ELSE IF tokenRes.status # OkStatus
    THEN ErrorReply(tokenRes.status, "Failed to issue session token", "")
    ELSE TokenReply(tokenRes.payload)

\* The browser posts to the route; the backend will answer its two requests
\* with agentRes and tokenRes.
ProxyInit ==
    proxyCall \in {[stage |-> "posted", agentRes |-> a, tokenRes |-> t, fault |-> f,
                    reply |-> ErrorReply(0, "", "")] :
                      a \in AgentAnswers, t \in TokenAnswers, f \in Faults}

\* The route answers.
ProxyReplied ==
    /\ route = "proxy"
    /\ proxyCall.stage = "posted"
    /\ proxyCall' = [proxyCall EXCEPT
                        !.stage = "replied",
                        !.reply = ProxyPost(proxyCall.agentRes, proxyCall.tokenRes,
                                            proxyCall.fault)]
    /\ UNCHANGED <<route, pageVars, crawlVars, apiResponse, authVars, wizardVars, uiVars>>

----------------------------------------------------------------------------
\* authStore (src/stores/authStore.ts)

MaxAuthCalls == 2        \* calls of initializeApp and login in flight together

AuthTokens == {"tok-1", "tok-2"}

AuthUsers == {1, 2}

OrgIds == {10, 20}

\* The lists organizationApi.getAll answers with.
OrgLists == {<<>>, <<10>>, <<20, 10>>}

\* A call is named by the least number no call in flight has.
NewCall(calls) ==
    CHOOSE n \in 1..(Cardinality(calls) + 1) : \A c \in calls : c.id # n

\* Another actor has written the store while these calls were in flight.
Disturbed(calls) == {[c EXCEPT !.clean = FALSE] : c \in calls}

\* logout: set({ user: null, token: null, ... })
LoggedOut ==
    [user |-> NoUser, token |-> NoAuthToken, organizations |-> <<>>,
     currentOrganization |-> NoOrg, isAuthenticated |-> FALSE, isLoading |-> FALSE]

\* login up to its await: set({ token, user, isAuthenticated: true })
LoginSet(store, tok, u) ==
    [store EXCEPT !.token = tok, !.user = u, !.isAuthenticated = TRUE]

\* Variant: a failed fetch of the organizations logs the user out.
AfterOrgsStrict(store, ok, list) ==
    IF ok
    THEN [store EXCEPT !.organizations = list,
                       !.currentOrganization = IF Len(list) > 0 THEN list[1] ELSE @,
                       !.isLoading = FALSE]
    ELSE LoggedOut

\* Variant: the organizations are stored without a current one.
AfterOrgsNoCurrent(store, ok, list) ==
    IF ok THEN [store EXCEPT !.organizations = list, !.isLoading = FALSE]
    ELSE [store EXCEPT !.isLoading = FALSE]

\* login after its await: set({ organizations }); if (organizations.length > 0)
\* set({ currentOrganization: organizations[0] }); the catch keeps the user
\* logged in; finally set({ isLoading: false }).
AfterOrgs(store, ok, list) ==
    IF ok
    THEN [store EXCEPT !.organizations = list,
                       !.currentOrganization = IF Len(list) > 0 THEN list[1] ELSE @,
                       !.isLoading = FALSE]
    ELSE [store EXCEPT !.isLoading = FALSE]

\* The application starts with the token of the storage, if it has one.
AuthInit ==
    /\ authStore \in {StoreInitial(tok) : tok \in AuthTokens \cup {NoAuthToken}}
    /\ authCalls = {}

\* initializeApp up to its await (AuthProvider calls it once it is mounted).
InitializeApp ==
    /\ route = "auth"
    /\ IF authStore.token = NoAuthToken
       THEN /\ authStore' = [authStore EXCEPT !.isLoading = FALSE]
            /\ authCalls' = IF authStore' = authStore THEN authCalls
                             ELSE Disturbed(authCalls)
       ELSE /\ Cardinality(authCalls) < MaxAuthCalls
            /\ authCalls' = authCalls \cup
                  {[id |-> NewCall(authCalls), fn |-> "initializeApp", stage |-> "getMe",
                    token |-> authStore.token, user |-> NoUser, orgs |-> <<>>,
                    orgsOk |-> FALSE, clean |-> TRUE]}
            /\ UNCHANGED authStore
    /\ UNCHANGED <<route, pageVars, crawlVars, apiResponse, proxyCall, wizardVars, uiVars>>

\* authApi.getMe answers a call of initializeApp: with user u, and login is
\* called with the token read at the start; or with an error, and the catch
\* logs out and the finally block stores isLoading: false.
GetMeAnswered(c, ok, u) ==
    /\ route = "auth"
    /\ c \in authCalls /\ c.stage = "getMe"
    /\ IF ok
       THEN /\ authStore' = LoginSet(authStore, c.token, u)
            /\ authCalls' = Disturbed(authCalls \ {c}) \cup
                  {[c EXCEPT !.stage = "orgs", !.user = u]}
       ELSE /\ authStore' = LoggedOut
            /\ authCalls' = Disturbed(authCalls \ {c})
    /\ UNCHANGED <<route, pageVars, crawlVars, apiResponse, proxyCall, wizardVars, uiVars>>

\* login, called by the login page, up to its await.
Login(tok, u) ==
    /\ route = "auth"
    /\ Cardinality(authCalls) < MaxAuthCalls
    /\ authStore' = LoginSet(authStore, tok, u)
    /\ authCalls' = Disturbed(authCalls) \cup
          {[id |-> NewCall(authCalls), fn |-> "login", stage |-> "orgs",
            token |-> tok, user |-> u, orgs |-> <<>>, orgsOk |-> FALSE, clean |-> TRUE]}
    /\ UNCHANGED <<route, pageVars, crawlVars, apiResponse, proxyCall, wizardVars, uiVars>>

\* organizationApi.getAll answers a call of login. A login that initializeApp
\* awaits hands over to it.
OrgsAnswered(c, ok, list) ==
    /\ route = "auth"
    /\ c \in authCalls /\ c.stage = "orgs"
    /\ authStore' = AfterOrgs(authStore, ok, list)
    /\ authCalls' = Disturbed(authCalls \ {c}) \cup
          (IF c.fn = "initializeApp"
           THEN {[c EXCEPT !.stage = "finally", !.orgs = IF ok THEN list ELSE <<>>,
                           !.orgsOk = ok]}
           ELSE {})
    /\ UNCHANGED <<route, pageVars, crawlVars, apiResponse, proxyCall, wizardVars, uiVars>>

\* initializeApp after `await get().login(...)`: finally set({ isLoading: false }).
InitializeAppDone(c) ==
    /\ route = "auth"
    /\ c \in authCalls /\ c.stage = "finally"
    /\ authStore' = [authStore EXCEPT !.isLoading = FALSE]
    /\ authCalls' = Disturbed(authCalls \ {c})
    /\ UNCHANGED <<route, pageVars, crawlVars, apiResponse, proxyCall, wizardVars, uiVars>>

Logout ==
    /\ route = "auth"
    /\ authStore' = LoggedOut
    /\ authCalls' = Disturbed(authCalls)
    /\ UNCHANGED <<route, pageVars, crawlVars, apiResponse, proxyCall, wizardVars, uiVars>>

\* setCurrentOrganization: the organization of that id, if the list has one.
SetCurrentOrganization(orgId) ==
    /\ route = "auth"
    /\ \E i \in DOMAIN authStore.organizations : authStore.organizations[i] = orgId
    /\ authStore' = [authStore EXCEPT !.currentOrganization = orgId]
    /\ authCalls' = Disturbed(authCalls)
    /\ UNCHANGED <<route, pageVars, crawlVars, apiResponse, proxyCall, wizardVars, uiVars>>

----------------------------------------------------------------------------
\* CreateAgent, step 1 in detail: the create request, its idempotency key and
\* a backend that answers a key it has seen with the agent it created for it

MaxMounts == 2           \* times the page is opened
MaxSubmits == 2          \* submissions of the form of step 1 from one mount

\* generateIdempotencyKey(): a random UUID, taken to be one that no call has
\* returned before; the n-th key is named n.
GenerateIdempotencyKey(n) == n

\* useMemo(() => generateIdempotencyKey(), []) of the mount that is the
\* n-th to open the page.
Mounted(n, org) ==
    [mount |-> n, key |-> GenerateIdempotencyKey(n), step |-> 1, agentId |-> 0,
     submits |-> 0, org |-> org]

\* Variant: the key is generated again for every submission.
IdempotencyKeyPerSubmit(w) == w.key * (MaxSubmits + 1) + w.submits

\* idempotencyKey, as onSubmitBasicInfo reads it.
IdempotencyKey(w) == w.key

\* The page is opened, with or without an organization in the auth store.
WizardInit ==
    /\ wizard \in {Mounted(1, org) : org \in BOOLEAN}
    /\ createRequests = EmptyBag
    /\ backendAgents = {}

\* onSubmitBasicInfo up to its await. Without an organization it reports an
\* error and sends nothing.
Submit ==
    /\ route = "wizard"
    /\ wizard.step = 1 /\ wizard.org
    /\ wizard.submits < MaxSubmits
    /\ wizard' = [wizard EXCEPT !.submits = @ + 1]
    /\ createRequests' = createRequests (+)
          SetToBag({[mount |-> wizard.mount, key |-> IdempotencyKey(wizard),
                     stage |-> "sent", agent |-> 0]})
    /\ UNCHANGED <<route, pageVars, crawlVars, apiResponse, proxyCall, authVars, uiVars, backendAgents>>

\* The request fails: on its way to the backend, or with the answer lost on
\* the way back. The catch logs the error; the page stays as it is.
RequestFailed(r) ==
    /\ route = "wizard"
    /\ BagIn(r, createRequests)
    /\ createRequests' = createRequests (-) SetToBag({r})
    /\ UNCHANGED <<route, pageVars, crawlVars, apiResponse, proxyCall, authVars, uiVars, wizard, backendAgents>>

\* The backend handles the request: for a key it has seen it answers with
\* the agent of that key, otherwise it creates an agent.
BackendCreate(r) ==
    /\ route = "wizard"
    /\ BagIn(r, createRequests) /\ r.stage = "sent"
    /\ LET known == {a \in backendAgents : a.key = r.key}
           id == IF known # {} THEN (CHOOSE a \in known : TRUE).id
                 ELSE Cardinality(backendAgents) + 1
       IN /\ backendAgents' =
                IF known # {}
                THEN (backendAgents \ known) \cup
                        {[a EXCEPT !.requests = @ + 1] : a \in known}
                ELSE backendAgents \cup
                        {[id |-> id, key |-> r.key, mount |-> r.mount, requests |-> 1]}
          /\ createRequests' = (createRequests (-) SetToBag({r})) (+)
                SetToBag({[r EXCEPT !.stage = "answered", !.agent = id]})
    /\ UNCHANGED <<route, pageVars, crawlVars, apiResponse, proxyCall, authVars, uiVars, wizard>>

\* The answer arrives: setAgentId(response.agent.id); setCurrentStep(2). The
\* setters of a mount that is gone do nothing.
CreateAnswered(r) ==
    /\ route = "wizard"
    /\ BagIn(r, createRequests) /\ r.stage = "answered"
    /\ createRequests' = createRequests (-) SetToBag({r})
    /\ wizard' = IF r.mount = wizard.mount
                  THEN [wizard EXCEPT !.agentId = r.agent, !.step = 2]
                  ELSE wizard
    /\ UNCHANGED <<route, pageVars, crawlVars, apiResponse, proxyCall, authVars, uiVars, backendAgents>>

\* The "Back" button of step 2: setCurrentStep(1)
BackToStep1 ==
    /\ route = "wizard"
    /\ wizard.step = 2
    /\ wizard' = [wizard EXCEPT !.step = 1]
    /\ UNCHANGED <<route, pageVars, crawlVars, apiResponse, proxyCall, authVars, uiVars, createRequests,
                   backendAgents>>

\* The page is left and opened again (or the browser reloads it): a new
\* mount, with its own key. The requests in flight go on.
Remount ==
    /\ route = "wizard"
    /\ wizard.mount < MaxMounts
    /\ wizard' = Mounted(wizard.mount + 1, wizard.org)
    /\ UNCHANGED <<route, pageVars, crawlVars, apiResponse, proxyCall, authVars, uiVars, createRequests,
                   backendAgents>>

----------------------------------------------------------------------------
\* uiStore (its theme) and ThemeToggle

\* const themes = [{ key: 'light', label: 'Light' }, { key: 'dark', ... }, ...]
Themes ==
    <<[key |-> "light", label |-> "Light"],
      [key |-> "dark", label |-> "Dark"],
      [key |-> "system", label |-> "System"]>>

ThemeKeys == {Themes[i].key : i \in DOMAIN Themes}

\* themes.findIndex(t => t.key === k), counted from 0; -1 when there is none.
FindIndex(k) ==
    IF \E i \in DOMAIN Themes : Themes[i].key = k
    THEN (CHOOSE i \in DOMAIN Themes : Themes[i].key = k) - 1
    ELSE -1

\* themes[(currentIndex + 1) % themes.length]
NextOf(k) == Themes[((FindIndex(k) + 1) % Len(Themes)) + 1]

\* Variant: the click selects the theme before the current one.
NextThemeBackwards(k) == Themes[((FindIndex(k) + 2) % Len(Themes)) + 1].key

\* The theme the onClick handler of the button passes to setTheme.
NextTheme(k) == NextOf(k).key

\* title={`Switch to ${...label} theme`}
Title(k) == <<"Switch to", NextOf(k).label, "theme">>

\* setTheme applies the theme to the document: the class "dark" is there for
\* 'dark', and for 'system' when the media query matches.
DarkFor(k, prefers) == k = "dark" \/ (k # "light" /\ prefers)

\* ThemeToggle rendered with theme k, after its effect has run:
\* setTheme(theme), and a listener on the media query for 'system'.
Rendered(k) == [mounted |-> TRUE, listening |-> k = "system", title |-> Title(k)]

\* The store has the theme that was persisted; nothing is applied yet.
UiInit ==
    /\ theme \in ThemeKeys
    /\ darkClass = FALSE
    /\ prefersDark \in BOOLEAN
    /\ themeToggle = NoToggle
    /\ clickRun = [from |-> theme, n |-> 0]

ToggleMounts ==
    /\ route = "theme"
    /\ ~themeToggle.mounted
    /\ themeToggle' = Rendered(theme)
    /\ darkClass' = DarkFor(theme, prefersDark)
    /\ clickRun' = [from |-> theme, n |-> 0]
    /\ UNCHANGED <<route, pageVars, crawlVars, apiResponse, proxyCall, authVars, wizardVars,
                   theme, prefersDark>>

\* A click on the button: setTheme(next); the component renders again and
\* its effect runs again.
ToggleClicked ==
    /\ route = "theme"
    /\ themeToggle.mounted
    /\ theme' = NextTheme(theme)
    /\ darkClass' = DarkFor(theme', prefersDark)
    /\ themeToggle' = Rendered(theme')
    /\ clickRun' = IF clickRun.n = Len(Themes)
                    THEN [from |-> theme, n |-> 1]
                    ELSE [clickRun EXCEPT !.n = @ + 1]
    /\ UNCHANGED <<route, pageVars, crawlVars, apiResponse, proxyCall, authVars, wizardVars,
                   prefersDark>>

\* The settings page sets the theme: setTheme(option.id)
SettingsSetTheme(k) ==
    /\ route = "theme"
    /\ theme' = k
    /\ darkClass' = DarkFor(k, prefersDark)
    /\ themeToggle' = IF themeToggle.mounted THEN Rendered(k) ELSE themeToggle
    /\ clickRun' = [from |-> k, n |-> 0]
    /\ UNCHANGED <<route, pageVars, crawlVars, apiResponse, proxyCall, authVars, wizardVars,
                   prefersDark>>

\* The system changes between light and dark: the listener, where there is
\* one, calls setTheme('system').
MediaChanged ==
    /\ route = "theme"
    /\ prefersDark' = ~prefersDark
    /\ IF themeToggle.listening
       THEN /\ theme' = "system"
            /\ darkClass' = DarkFor("system", prefersDark')
            /\ themeToggle' = Rendered("system")
       ELSE UNCHANGED <<theme, darkClass, themeToggle>>
    /\ UNCHANGED <<route, pageVars, crawlVars, apiResponse, proxyCall, authVars, wizardVars, clickRun>>

\* ThemeToggle unmounts; the cleanup of its effect removes the listener.
ToggleUnmounts ==
    /\ route = "theme"
    /\ themeToggle.mounted
    /\ themeToggle' = NoToggle
    /\ clickRun' = [from |-> theme, n |-> 0]
    /\ UNCHANGED <<route, pageVars, crawlVars, apiResponse, proxyCall, authVars, wizardVars,
                   theme, darkClass, prefersDark>>

----------------------------------------------------------------------------
\* The rest of the application: one part of it runs in a behaviour.

----------------------------------------------------------------------------
\* CreateAgent, step 2: discoverByDomain and the effect that polls the status
\* of the crawl task (page.tsx 1287-1327)
\*
\* A run of the polling effect is the closure the effect made for one task
\* id: its local variable timer and its function poll. It is awaiting the
\* answer to a status request ("request"), waiting for its setTimeout
\* ("timer"), or it has returned from poll for good ("done"), or its cleanup
\* has cleared its pending timer ("stopped").

MaxTasks == 2            \* crawl tasks enqueued
MaxPolls == 3            \* status requests one run of the effect sends
MaxOpens == 2            \* times the page is opened

CrawlStatuses == {"running", "completed", "failed", "error"}

\* The page is opened.
CrawlOpened(n, made) ==
    [mount |-> n, mounted |-> TRUE, discovering |-> FALSE, taskId |-> 0,
     enqueuing |-> FALSE, made |-> made]

\* The body of the effect for task id t of mount m: poll() is called and
\* sends the first status request.
NewPoller(m, t) == [mount |-> m, task |-> t, torn |-> FALSE, stage |-> "request", sent |-> 1]

\* The cleanup of the effect: return () => timer && clearTimeout(timer). A
\* timer that has fired is not pending, and clearing it does nothing.
PollCleanup(q) ==
    IF q.stage = "timer" THEN [q EXCEPT !.torn = TRUE, !.stage = "stopped"]
    ELSE [q EXCEPT !.torn = TRUE]

\* The cleanup runs for the run of the effect that is live in mount m.
TornDown(ps, m) ==
    {IF q.mount = m /\ ~q.torn THEN PollCleanup(q) ELSE q : q \in ps}

\* poll after its await: a task still running sets the next timer; a task
\* completed or failed, and a failed status request, return.
AfterStatus(q, status) ==
    IF status = "running" THEN [q EXCEPT !.stage = "timer"] ELSE [q EXCEPT !.stage = "done"]

CrawlInit ==
    /\ crawl = CrawlOpened(1, 0)
    /\ pollers = {}

\* discoverByDomain up to its await (the button is disabled while
\* discovering).
DiscoverByDomain ==
    /\ route = "crawl"
    /\ crawl.mounted /\ ~crawl.discovering
    /\ crawl.made < MaxTasks
    /\ crawl' = [crawl EXCEPT !.discovering = TRUE, !.enqueuing = TRUE]
    /\ UNCHANGED <<route, pageVars, pollers, apiResponse, proxyCall, authVars,
                   wizardVars, uiVars>>

\* crawlApi.enqueue answers: setCrawlTaskId(taskId), and the effect runs for
\* the new task id; or it fails: setDiscovering(false).
EnqueueAnswered(ok) ==
    /\ route = "crawl"
    /\ crawl.mounted /\ crawl.enqueuing
    /\ IF ok
       THEN /\ crawl' = [crawl EXCEPT !.enqueuing = FALSE, !.made = @ + 1,
                                      !.taskId = crawl.made + 1]
            /\ pollers' = TornDown(pollers, crawl.mount)
                              \cup {NewPoller(crawl.mount, crawl.made + 1)}
       ELSE /\ crawl' = [crawl EXCEPT !.enqueuing = FALSE, !.discovering = FALSE]
            /\ UNCHANGED pollers
    /\ UNCHANGED <<route, pageVars, apiResponse, proxyCall, authVars, wizardVars, uiVars>>

\* crawlApi.status answers the request of run q, or fails ("error"). The
\* state setters reach the mount of q only while it is mounted; setting
\* crawlTaskId to null runs the cleanup of the effect.
StatusAnswered(q, status) ==
    LET live == crawl.mounted /\ crawl.mount = q.mount
        after == AfterStatus(q, status)
    IN /\ route = "crawl"
       /\ q \in pollers /\ q.stage = "request"
       /\ IF status # "running" /\ live
          THEN /\ crawl' = [crawl EXCEPT !.discovering = FALSE, !.taskId = 0]
               /\ pollers' = TornDown((pollers \ {q}) \cup {after}, crawl.mount)
          ELSE /\ UNCHANGED crawl
               /\ pollers' = (pollers \ {q}) \cup {after}
       /\ UNCHANGED <<route, pageVars, apiResponse, proxyCall, authVars, wizardVars, uiVars>>

\* The timer of run q fires: poll() sends the next status request.
PollTimerFires(q) ==
    /\ route = "crawl"
    /\ q \in pollers /\ q.stage = "timer"
    /\ q.sent < MaxPolls
    /\ pollers' = (pollers \ {q}) \cup {[q EXCEPT !.stage = "request", !.sent = @ + 1]}
    /\ UNCHANGED <<route, pageVars, crawl, apiResponse, proxyCall, authVars,
                   wizardVars, uiVars>>

\* The page is left: the cleanup of the effect runs.
CrawlUnmount ==
    /\ route = "crawl"
    /\ crawl.mounted
    /\ crawl' = [crawl EXCEPT !.mounted = FALSE, !.enqueuing = FALSE]
    /\ pollers' = TornDown(pollers, crawl.mount)
    /\ UNCHANGED <<route, pageVars, apiResponse, proxyCall, authVars, wizardVars, uiVars>>

\* The page is opened again: a new mount, with its own state.
CrawlRemount ==
    /\ route = "crawl"
    /\ ~crawl.mounted /\ crawl.mount < MaxOpens
    /\ crawl' = CrawlOpened(crawl.mount + 1, crawl.made)
    /\ UNCHANGED <<route, pageVars, pollers, apiResponse, proxyCall, authVars,
                   wizardVars, uiVars>>

InitApp ==
    /\ PagesInit
    /\ \/ route = "api" /\ ApiInit /\ proxyCall = NoProxyCall /\ AuthIdle /\ WizardIdle
             /\ UiIdle /\ CrawlIdle
       \/ route = "proxy" /\ ProxyInit /\ apiResponse = NoResponse /\ AuthIdle /\ WizardIdle
             /\ UiIdle /\ CrawlIdle
       \/ route = "auth" /\ AuthInit /\ apiResponse = NoResponse
             /\ proxyCall = NoProxyCall /\ WizardIdle /\ UiIdle /\ CrawlIdle
       \/ route = "wizard" /\ WizardInit /\ apiResponse = NoResponse
             /\ proxyCall = NoProxyCall /\ AuthIdle /\ UiIdle /\ CrawlIdle
       \/ route = "theme" /\ UiInit /\ apiResponse = NoResponse
             /\ proxyCall = NoProxyCall /\ AuthIdle /\ WizardIdle /\ CrawlIdle
       \/ route = "crawl" /\ CrawlInit /\ apiResponse = NoResponse
             /\ proxyCall = NoProxyCall /\ AuthIdle /\ WizardIdle /\ UiIdle

NextApp ==
    \/ ApiResponded
    \/ ProxyReplied
    \/ InitializeApp
    \/ \E c \in authCalls, ok \in BOOLEAN, u \in AuthUsers : GetMeAnswered(c, ok, u)
    \/ \E tok \in AuthTokens, u \in AuthUsers : Login(tok, u)
    \/ \E c \in authCalls, ok \in BOOLEAN, list \in OrgLists : OrgsAnswered(c, ok, list)
    \/ \E c \in authCalls : InitializeAppDone(c)
    \/ Logout
    \/ \E o \in OrgIds : SetCurrentOrganization(o)
    \/ Submit
    \/ \E r \in BagToSet(createRequests) : RequestFailed(r)
    \/ \E r \in BagToSet(createRequests) : BackendCreate(r)
    \/ \E r \in BagToSet(createRequests) : CreateAnswered(r)
    \/ BackToStep1
    \/ Remount
    \/ ToggleMounts
    \/ ToggleClicked
    \/ \E t \in ThemeKeys : SettingsSetTheme(t)
    \/ MediaChanged
    \/ ToggleUnmounts
    \/ DiscoverByDomain
    \/ \E ok \in BOOLEAN : EnqueueAnswered(ok)
    \/ \E q \in pollers, status \in CrawlStatuses : StatusAnswered(q, status)
    \/ \E q \in pollers : PollTimerFires(q)
    \/ CrawlUnmount
    \/ CrawlRemount

SpecApp == InitApp /\ [][NextApp]_vars

\* The network answers the call of the auth store that has this id:
\* authApi.getMe or organizationApi.getAll resolves or fails, and a
\* continuation that is ready runs.
AuthAnswered(id) ==
    \E c \in authCalls :
        /\ c.id = id
        /\ \/ \E ok \in BOOLEAN, u \in AuthUsers : GetMeAnswered(c, ok, u)
           \/ \E ok \in BOOLEAN, list \in OrgLists : OrgsAnswered(c, ok, list)
           \/ InitializeAppDone(c)

\* The rest of the application with every network call of the auth store
\* answered in the end.
SpecAppAnswered == SpecApp /\ \A id \in 1..MaxAuthCalls : WF_vars(AuthAnswered(id))

----------------------------------------------------------------------------
\* Properties

\* The log msgs holds a message of the user that is not a preview prompt.
RealActivity(msgs) ==
    \E i \in DOMAIN msgs : msgs[i].role = "user" /\ ~IsPreviewId(msgs[i].id)

\* The rounds or sends of new that old does not hold.
Fresh(old, new) == {r \in new : \A q \in old : q.n # r.n}

\* This step sent the chat request of a preview round.
PreviewChatSent ==
    \E r \in previewRuns' :
        r.stage = "chat" /\ ~(\E q \in previewRuns : q.n = r.n /\ q.stage = "chat")

\* This step started a preview round.
RoundStarted == Fresh(previewRuns, previewRuns') # {}

\* This step ended the preview round r.
RoundEnded(r) == mounted' /\ ~(\E q \in previewRuns' : q.n = r.n)

PreviewChatsInFlight == {r \in previewRuns : r.stage = "chat"}

\* The burst is over: DebounceMs have passed since its last change, no timer
\* is pending and the round its timer started is not waiting for its token.
BurstOver ==
    /\ burst.n >= 1
    /\ now >= burst.last + DebounceMs
    /\ timers = {}
    /\ ~(\E r \in previewRuns : r.n = burst.round /\ r.stage = "token")

\* C1, as the claim states it (and with the token issued): a burst of changes
\* causes exactly one preview chat request, built from the final
\* configuration and sent DebounceMs or more after the last change.
C1_ExactlyOneRequest ==
    (BurstOver /\ ~burst.failed) => (burst.reqs = 1 /\ burst.final /\ burst.quiet)

\* C1, amended: a burst of changes causes at most one preview chat request,
\* never one built from an intermediate configuration and never one sent
\* less than DebounceMs after the last change; once the burst is over it has
\* caused exactly one when the hash of the final configuration differs from
\* the hash the controller had recorded and the token was issued, and none
\* otherwise.
C1_Coalescing ==
    burst.n >= 1 =>
        /\ burst.reqs <= 1 /\ burst.final /\ burst.quiet
        /\ BurstOver => burst.reqs = (IF burst.differs /\ ~burst.failed THEN 1 ELSE 0)

\* A burst of two changes or more is over and has caused its one request.
C1_Witness == BurstOver /\ burst.n >= 2 /\ burst.reqs = 1 /\ burst.differs

\* C2: once the log holds a real user message, no step sends a preview chat
\* request.
C2_NoPreviewAfterRealMessage ==
    [][RealActivity(messages) => ~PreviewChatSent]_vars

\* C3: when a preview chat request sent before the first real user message
\* ends (with a reply or with a failure) after that message was appended,
\* the log is left as it is.
C3_DiscardOnRace ==
    [][\A r \in previewRuns :
          (r.stage = "chat" /\ ~r.realAtSend /\ RealActivity(messages) /\ RoundEnded(r))
              => messages' = messages]_vars

\* The outcome of a round that was overtaken by a real user message has been
\* discarded.
C3_Witness == outcome.how = "discarded" /\ outcome.raced /\ RealActivity(messages)

\* No preview message stands behind a real user message in msgs.
NoPreviewAfterReal(msgs) ==
    \A i, k \in DOMAIN msgs :
        (i < k /\ msgs[i].role = "user" /\ ~IsPreviewId(msgs[i].id))
            => ~IsPreviewId(msgs[k].id)

IsPrefix(a, b) == Len(a) <= Len(b) /\ SubSeq(b, 1, Len(a)) = a

\* C4: once a real user message is in the log of CreateAgent, no step removes,
\* replaces or reorders what the log holds (messages are only appended), and
\* no preview message is ever behind a real user message.
C4_RealMessagesKept ==
    [][route = "create" =>
          /\ NoPreviewAfterReal(messages')
          /\ (RealActivity(messages) /\ mounted') => IsPrefix(messages, messages')]_vars

\* A preview round ended after the real user message without having raced
\* it, and wrote nothing.
C4_Witness ==
    outcome.how = "discarded" /\ ~outcome.raced /\ RealActivity(messages)


\* The cached token, read as ensureAgentSessionToken reads it at time now.
CachedAndFresh == sessionToken # NoToken /\ sessionTokenExpiry - SafetyWindow > now

\* Every call of ensureAgentSessionToken this step made (one for each round
\* or send it started) returned the cached token without a call of the
\* issuer exactly when a token was cached and fresh, and left one call of
\* the issuer pending otherwise.
EnsureDecided(old, new) ==
    \A r \in Fresh(old, new) :
        IF CachedAndFresh
        THEN r.stage = "chat" /\ r.token = sessionToken /\ sessionToken' = sessionToken
        ELSE r.stage = "token"

\* Every answer of the issuer this step took was stored with the expiry
\* now + expires_in * 1000 and was the token the call returned.
IssuedStored(old, new) ==
    \A r \in old : \A q \in new :
        (r.stage = "token" /\ q.n = r.n /\ q.stage = "chat") =>
            /\ q.token # NoToken
            /\ sessionToken' = q.token
            /\ \E e \in ExpiresInChoices : sessionTokenExpiry' = now + e * 1000

\* C5: ensureAgentSessionToken (of CreateAgent and of AgentChatPage) returns
\* the cached token without a network call exactly when a token is cached and
\* its expiry minus the safety window lies after now; otherwise it calls the
\* issuer once, stores the answer with expiry now + expires_in * 1000 (now
\* read when the answer arrives) and returns the new token.
C5_TokenCache ==
    [][/\ EnsureDecided(previewRuns, previewRuns')
       /\ EnsureDecided(manualSends, manualSends')
       /\ EnsureDecided(chatSends, chatSends')
       /\ IssuedStored(previewRuns, previewRuns')
       /\ IssuedStored(manualSends, manualSends')
       /\ IssuedStored(chatSends, chatSends')]_vars

\* A token is cached, its safety window has been reached, and the send that
\* found it so has its one call of the issuer pending.
C5_Witness ==
    /\ sessionToken # NoToken
    /\ sessionTokenExpiry - SafetyWindow <= now
    /\ \E c \in chatSends : c.stage = "token"

\* C6: whenever the agent of AgentChatPage changes, the cached token and its
\* expiry are both cleared, and no step sends a chat request for an agent
\* with a token that was issued for another agent.
C6_TokenNotPortable ==
    [][/\ chatAgent' # chatAgent => (sessionToken' = NoToken /\ sessionTokenExpiry' = 0)
       /\ \A c \in chatSends' :
             (c.stage = "chat" /\ ~(\E q \in chatSends : q.n = c.n /\ q.stage = "chat"))
                 => c.token.for = c.agent]_vars

\* The controller has recorded the hash of the round that ended last with a
\* reply, and the configuration still has it.
SettledHere ==
    /\ outcome.how = "reply" /\ outcome.same
    /\ previewController.hash = outcome.hash

C8_AtMostOneRound ==
    Cardinality(timers) + Cardinality(PreviewChatsInFlight) <= 1

\* The preview messages of msgs whose role is role.
PreviewMessages(msgs, role) ==
    {i \in DOMAIN msgs : IsPreviewId(msgs[i].id) /\ msgs[i].role = role}

\* C9: a preview round that ends with a reply while there is no real user
\* message makes the log exactly its prompt followed by its reply; and while
\* there is no real user message the log of CreateAgent holds at most one
\* preview prompt and at most one preview assistant message.
C9_LogReplaced ==
    [][route = "create" =>
          /\ \A r \in previewRuns :
                (r.stage = "chat" /\ RoundEnded(r) /\ outcome'.how = "reply"
                    /\ ~RealActivity(messages))
                    => messages' = <<PreviewUserMessage(r.cfg), PreviewReply(r.cfg)>>
          /\ ~RealActivity(messages') =>
                /\ Cardinality(PreviewMessages(messages', "user")) <= 1
                /\ Cardinality(PreviewMessages(messages', "assistant")) <= 1]_vars

\* A round has ended with a reply and the log is its prompt and its reply.
C9_Witness ==
    /\ outcome.how = "reply"
    /\ Len(messages) = 2
    /\ messages[1].id.prefix = "preview-user"
    /\ messages[2].id.prefix = "preview-assistant"

\* This step left step 3 (or lost the agent) with the page still mounted.
Leaving == PreviewShown /\ ~PreviewShown' /\ mounted'

Unmounting == mounted /\ ~mounted'

C11_FailureContained ==
    [][\A r \in previewRuns :
          (RoundEnded(r) /\ outcome'.how = "error" /\ ~RealActivity(messages))
              => /\ messages' = <<PreviewUserMessage(r.cfg), PreviewError>>
                 /\ currentStep' = currentStep /\ config' = config
                 /\ sessionToken' = sessionToken
                 /\ sessionTokenExpiry' = sessionTokenExpiry]_vars

\* A round has just failed on step 3 and the log ends with the message that
\* the preview is unavailable.
C11_Witness ==
    /\ outcome.how = "error" /\ currentStep = 3
    /\ Len(messages) = 2
    /\ messages[1].id.prefix = "preview-user"
    /\ messages[2] = PreviewError

\* This step is the failure of a manual message: the issuer or the chat
\* endpoint answers a send of CreateAgent or of AgentChatPage with an error.
ManualFailed ==
    \/ \E m \in manualSends, e \in ExpiresInChoices : ManualIssuerResponse(m, FALSE, e)
    \/ \E m \in manualSends : ManualChatResponse(m, FALSE)
    \/ \E c \in chatSends, e \in ExpiresInChoices : ChatIssuerResponse(c, FALSE, e)
    \/ \E c \in chatSends, conv \in ConversationIds \cup {0} : ChatResponse(c, FALSE, conv)

\* C12: the failure of a manual message appends exactly one assistant error
\* message to the log and touches nothing else in it; the send itself
\* appended the user's message; and between the two no step other than the
\* user's own clearChat removes, replaces or reorders a message, so that in
\* CreateAgent (which has no clearChat) the error message is behind the
\* user's message and behind everything the log held before the send.
C12_ManualFailureInline ==
    [][/\ ManualFailed =>
             /\ messages' = Append(messages, ManualError)
             /\ route = "create" => RealActivity(messages)
       /\ (SendTestMessage \/ SendMessage) =>
             IsPrefix(Append(messages, UserMessage), messages')
       /\ ((manualSends # {} \/ chatSends # {}) /\ mounted' /\ ~ClearChat) =>
             IsPrefix(messages, messages')]_vars

\* A manual message has failed: the log ends with the user's message and the
\* error message, behind what it held before the send.
C12_Witness ==
    /\ Len(messages) >= 3
    /\ messages[Len(messages)] = ManualError
    /\ messages[Len(messages) - 1] = UserMessage
    /\ manualSends = {} /\ chatSends = {}

\* The log ends with a preview prompt.
PromptLast == messages # <<>> /\ messages[Len(messages)].id.prefix = "preview-user"

\* The last message of msgs is an assistant message of the preview.
PreviewAnswerLast(msgs) ==
    /\ msgs # <<>>
    /\ msgs[Len(msgs)].role = "assistant"
    /\ msgs[Len(msgs)].id.prefix \in {"preview-assistant", "preview-error"}

\* C13: the log ends with a preview prompt only while a preview round is in
\* flight; a round that ends while there is no real user message leaves the
\* log ending with the preview reply or with the "preview unavailable"
\* message; and, the network calls being answered, a log that ends with a
\* preview prompt does not stay so (it gets the assistant message, or a real
\* user message, or the page is closed).
C13_RoundAnswered ==
    /\ [](PromptLast => previewRuns # {})
    /\ [][\A r \in previewRuns :
             (RoundEnded(r) /\ ~RealActivity(messages')) => PreviewAnswerLast(messages')]_vars
    /\ (PromptLast ~> ~PromptLast)

\* A round that started has failed and the log ends with the message that
\* the preview is unavailable.
C13_Witness ==
    /\ previewRuns = {} /\ outcome.how = "error"
    /\ PreviewAnswerLast(messages)
    /\ messages[Len(messages)].id.prefix = "preview-error"

\* The calls of the issuer that are pending in a state with these rounds and
\* sends.
IssuerCalls(previews, manuals, chats) ==
    {r \in previews \cup manuals \cup chats : r.stage = "token"}

\* This step is a failure of the issuer: its pending call is answered with
\* an error.
IssuerFailed ==
    \/ \E r \in previewRuns, e \in ExpiresInChoices : PreviewIssuerResponse(r, FALSE, e)
    \/ \E m \in manualSends, e \in ExpiresInChoices : ManualIssuerResponse(m, FALSE, e)
    \/ \E c \in chatSends, e \in ExpiresInChoices : ChatIssuerResponse(c, FALSE, e)

\* C14: when a call of the issuer fails, the invocation of
\* ensureAgentSessionToken that made it ends without a second call (the
\* pending calls are the ones of before less the failed one, and no chat
\* request is sent), the failure reaches the caller (which writes its error
\* message unless it is a preview overtaken by a real user message), and
\* the cached token and its expiry are left as they were.
C14_IssuerFailurePropagates ==
    [][IssuerFailed =>
          /\ sessionToken' = sessionToken
          /\ sessionTokenExpiry' = sessionTokenExpiry
          /\ IssuerCalls(previewRuns', manualSends', chatSends')
                \subseteq IssuerCalls(previewRuns, manualSends, chatSends)
          /\ Cardinality(IssuerCalls(previewRuns', manualSends', chatSends'))
                = Cardinality(IssuerCalls(previewRuns, manualSends, chatSends)) - 1
          /\ {r \in previewRuns' \cup manualSends' \cup chatSends' : r.stage = "chat"}
                \subseteq previewRuns \cup manualSends \cup chatSends
          /\ \/ messages' = Append(messages, ManualError)
             \/ messages' \in {<<PreviewUserMessage(r.cfg), PreviewError>> : r \in previewRuns}
             \/ RealActivity(messages) /\ messages' = messages]_vars

\* The issuer has failed a send that found a cached token past its safety
\* window: the token and its expiry are still the cached ones.
C14_Witness ==
    /\ sessionToken # NoToken
    /\ sessionTokenExpiry - SafetyWindow <= now
    /\ chatSends = {} /\ ~isLoading
    /\ messages # <<>> /\ messages[Len(messages)] = ManualError

\* The selections of documents: the sequences of document ids without
\* repetition.
DocSelections ==
    {s \in UNION {[1..n -> DocIds] : n \in 0..Cardinality(DocIds)} :
        \A i, k \in DOMAIN s : i # k => s[i] # s[k]}

\* The configurations a and b have the same values of the tracked fields and
\* the same set of document ids.
SameValues(a, b) ==
    /\ Range(a.selectedDocs) = Range(b.selectedDocs)
    /\ [a EXCEPT !.selectedDocs = <<>>] = [b EXCEPT !.selectedDocs = <<>>]

\* C15: the hash of the configuration does not depend on the order of the
\* selected document ids; and once a preview round has ended with a reply
\* for the configuration and the controller has its hash recorded, a step
\* that leaves the values as they are (a selection stored in another order,
\* a new array of the same ids, a re-render by another dependency) arms no
\* timer and starts no round.
C15_HashOrderInsensitive ==
    /\ [](\A s1, s2 \in DocSelections :
            Range(s1) = Range(s2) =>
                Hash([config EXCEPT !.selectedDocs = s1])
                    = Hash([config EXCEPT !.selectedDocs = s2]))
    /\ [][(SettledHere /\ SameValues(config, config'))
             => (timers' = {} /\ ~RoundStarted)]_vars

\* The document ids of a settled configuration have been stored again in
\* another order, and no timer is pending.
C15_Witness ==
    /\ SettledHere /\ outcome.reordered /\ timers = {} /\ previewRuns = {}
    /\ currentStep = 3 /\ Len(config.selectedDocs) = 2

\* C16, as the claim states it: the "clear chat" action empties the log.
C16_ResetEmptiesLog ==
    [][ClearChat => messages' = <<>>]_vars

\* C16, amended: clearChat belongs to AgentChatPage, which has no automatic
\* preview; it puts the welcome message of the loaded agent in the place of
\* the log (the empty log when no agent is loaded), which leaves no real
\* user message in it, and forgets the conversation id. CreateAgent has no
\* such action: once its log holds a real user message, every step of the
\* mounted page leaves one in it, leaves no timer pending and starts no
\* preview round, whatever the configuration is changed to.
C16_SuspendedForGood ==
    [][/\ ClearChat =>
             /\ route = "chat"
             /\ messages' = IF chatAgent # NoAgent THEN <<Welcome(chatAgent)>> ELSE <<>>
             /\ ~RealActivity(messages')
             /\ conversationId' = 0
       /\ route = "chat" => (timers' = {} /\ previewRuns' = {})
       /\ (route = "create" /\ RealActivity(messages) /\ mounted') =>
             /\ RealActivity(messages')
             /\ timers' = {}
             /\ ~RoundStarted]_vars

\* The configuration of CreateAgent has been changed after a real user
\* message, on step 3 with the agent loaded, and no timer is pending.
C16_Witness ==
    /\ route = "create" /\ mounted /\ PreviewShown
    /\ RealActivity(messages)
    /\ changes >= 1 /\ Hash(config) # Hash(InitialConfig)
    /\ previewController.hash = EmptyHash
    /\ timers = {}

\* The agent records of the response data d: the elements of an array, the
\* value of the field agent of an object that has one, and otherwise the
\* object itself.
AgentRecords(d) ==
    IF d.t = "array" THEN {d.items[i] : i \in DOMAIN d.items}
    ELSE IF d.t = "object"
    THEN IF "agent" \in d.fields THEN {d.agent} ELSE {AsItem(d)}
    ELSE {}

\* The texts of the body of a reply of the session-token route.
BodyTexts(body) == {body.error, body.details, body.token}

\* C17: no agent record of a response that the API client hands to its
\* caller for a URL under /api/v1/agents has a field api_key; and the
\* session-token route replies with status 200 exactly with the payload of
\* the issuer, and no reply of it holds the agent's api_key.
C17_NoLongLivedSecret ==
    /\ (apiResponse.stage = "handed" /\ StartsWith(apiResponse.url, AgentsPrefix)) =>
          \A a \in AgentRecords(apiResponse.data) : "api_key" \notin a.fields
    /\ proxyCall.stage = "replied" =>
          /\ proxyCall.reply.status = OkStatus =>
                /\ proxyCall.reply.body.token = proxyCall.tokenRes.payload.token
                /\ proxyCall.reply.body.expires_in = proxyCall.tokenRes.payload.expires_in
                /\ proxyCall.reply.body.error = "" /\ proxyCall.reply.body.details = ""
          /\ proxyCall.agentRes.api_key # "" =>
                proxyCall.agentRes.api_key \notin BodyTexts(proxyCall.reply.body)

\* An array of two agents that both came with an api_key has been handed to
\* the caller.
C17_Witness ==
    /\ apiResponse.stage = "handed"
    /\ apiResponse.url = AgentsPrefix
    /\ apiResponse.raw.t = "array" /\ Len(apiResponse.raw.items) = 2
    /\ \A i \in 1..2 : "api_key" \in apiResponse.raw.items[i].fields

\* C18: a call of initializeApp that found a token in the store, whose getMe
\* and whose organizations fetch both succeeded, and during which nothing
\* else wrote the store, ends with isAuthenticated true, the user getMe
\* answered with, the organizations that were fetched, the first of them as
\* the current organization when there is one, isLoading false and the token
\* it found.
C18_InitializeAppHydrates ==
    [][\A c \in authCalls :
          (/\ c.fn = "initializeApp" /\ c.stage = "finally"
           /\ ~(\E q \in authCalls' : q.id = c.id)
           /\ c.orgsOk /\ c.clean)
          => /\ authStore'.isAuthenticated
             /\ authStore'.user = c.user /\ c.user # NoUser
             /\ authStore'.organizations = c.orgs
             /\ c.orgs # <<>> => authStore'.currentOrganization = c.orgs[1]
             /\ ~authStore'.isLoading
             /\ authStore'.token = c.token /\ c.token # NoAuthToken]_vars

\* The application has started with a stored token and is signed in, with
\* the second organization of the identifiers as the current one, and
\* nothing in flight.
C18_Witness ==
    /\ route = "auth" /\ authCalls = {}
    /\ authStore.isAuthenticated /\ ~authStore.isLoading
    /\ authStore.organizations = <<20, 10>>
    /\ authStore.currentOrganization = 20

\* C19: the create requests of one mount of the page all carry the same
\* idempotency key, which is the key of no other mount; so the backend, which
\* answers a key it has seen with the agent it created for it, has created
\* at most one agent for each mount, however many requests the mount sent.
C19_OneAgentPerMount ==
    /\ \A r, q \in BagToSet(createRequests) : (r.mount = q.mount) <=> (r.key = q.key)
    /\ \A r \in BagToSet(createRequests) : \A a \in backendAgents :
          (r.mount = a.mount) <=> (r.key = a.key)
    /\ \A a, b \in backendAgents : a.mount = b.mount => a = b

\* The backend has answered three requests of the first mount (a double
\* click, a submission again after a failure or after going back to step 1)
\* with one agent, and has created another agent for the second mount.
C19_Witness ==
    /\ \E a \in backendAgents : a.mount = 1 /\ a.requests = MaxSubmits
    /\ \E b \in backendAgents : b.mount = 2
    /\ wizard.step = 2 /\ wizard.agentId # 0

\* The theme after the one of key k in the cycle light, dark, system, light.
CycleNext(k) ==
    CASE k = "light" -> [key |-> "dark", label |-> "Dark"]
      [] k = "dark" -> [key |-> "system", label |-> "System"]
      [] k = "system" -> [key |-> "light", label |-> "Light"]

\* C20: a click on the theme toggle sets the theme to the next one of the
\* cycle light, dark, system, light; after three clicks in a row the theme
\* is the one of before the first; and the title of the button is "Switch
\* to <label> theme" with the label of the theme the next click selects.
C20_ThemeCycle ==
    /\ [][ToggleClicked =>
             /\ theme' = CycleNext(theme).key
             /\ themeToggle.title = <<"Switch to", CycleNext(theme).label, "theme">>]_vars
    /\ [](clickRun.n = 3 => theme = clickRun.from)
    /\ [](themeToggle.mounted =>
             themeToggle.title = <<"Switch to", CycleNext(theme).label, "theme">>)

\* Three clicks in a row, from the theme dark, have come back to it.
C20_Witness ==
    /\ themeToggle.mounted
    /\ clickRun = [from |-> "dark", n |-> 3]
    /\ theme = "dark" /\ darkClass

----------------------------------------------------------------------------
\* The recorded hash of the preview controller

\* A preview round of hash h ends in this step: its answer arrives and its
\* outcome is written to the log.
RoundCompletes(h) ==
    \E r \in previewRuns :
        /\ Hash(r.cfg) = h
        /\ ~(\E q \in previewRuns' : q.n = r.n)
        /\ mounted'
        /\ Len(messages') = 2

\* The statement of C21 as the specification words it: the recorded hash
\* takes a value H other than the empty hash only in a step in which the
\* round for H completes and its result is written to the log.
C21_RecordedAtCompletion ==
    [][(previewController'.hash # previewController.hash
          /\ previewController'.hash # EmptyHash)
       => RoundCompletes(previewController'.hash)]_vars

\* C21: the controller has one hash; it is set to H in the step in which the
\* timer for H fires, before the round's token and chat requests are made,
\* and the render that follows leaves it at H. No other step gives it a value
\* other than the empty hash: the answer of the issuer and the answer of the
\* chat endpoint, successful or not, leave it as it is or reset it to the
\* empty hash (when the user has sent a message).
C21_RecordedAtTimerFire ==
    [][/\ \A t \in timers : TimerFire(t) => previewController'.hash = t.hash
       /\ (previewController'.hash # previewController.hash
              /\ previewController'.hash # EmptyHash)
          => \E t \in timers : /\ now >= t.deadline
                                /\ t \notin timers'
                                /\ t.hash = previewController'.hash]_vars

\* A round is in flight, its prompt alone in the log, and the recorded hash
\* is already the hash of the round, which is not the hash recorded before
\* (the empty one at the first round).
C21_Witness ==
    /\ \E r \in previewRuns :
          /\ r.stage = "chat"
          /\ previewController.hash = Hash(r.cfg)
          /\ messages = <<PreviewUserMessage(r.cfg)>>
    /\ previewController.hash # EmptyHash
    /\ changes > 0

\* The preview round that ended last failed, for the hash the configuration
\* still has, and the controller still has that hash recorded.
FailedHere ==
    /\ outcome.how = "error" /\ outcome.same
    /\ previewController.hash = outcome.hash

----------------------------------------------------------------------------
\* The token cache of CreateAgent under concurrent refreshes

\* The cached token and the cached expiry are both empty, or the expiry is
\* the one of the issuer's answer that returned the token.
CachePairWhole(tok, exp) ==
    \/ tok = NoToken /\ exp = 0
    \/ tok # NoToken /\ tok.exp = exp

\* The chat requests of CreateAgent that are in flight.
ChatsInFlight == {r \in previewRuns \cup manualSends : r.stage = "chat"}

\* C23: when sendTestMessage and runAutoPreview call ensureAgentSessionToken
\* while no usable token is cached, each makes its own call of the issuer and
\* nothing else goes wrong: every chat request in flight carries a token the
\* issuer returned for this agent, the cached token and the cached expiry
\* always come from the same answer of the issuer, and the pair is written
\* only in the step that resolves a call of the issuer, once for that call.
C23_RaceOnlyRedundant ==
    /\ [](route = "create" =>
            /\ CachePairWhole(sessionToken, sessionTokenExpiry)
            /\ \A r \in ChatsInFlight : r.token # NoToken /\ r.token.for = r.aid)
    /\ [][(route = "create" /\ mounted'
            /\ <<sessionToken, sessionTokenExpiry>>' # <<sessionToken, sessionTokenExpiry>>)
          => \E call \in IssuerCalls(previewRuns, manualSends, {}) :
                \E e \in ExpiresInChoices :
                   /\ sessionToken' = IssuedToken(call.aid, NewExpiry(now, e))
                   /\ sessionTokenExpiry' = NewExpiry(now, e)
                   /\ IssuerCalls(previewRuns', manualSends', {})
                         = IssuerCalls(previewRuns, manualSends, {}) \ {call}]_vars

\* The preview and the manual send both refreshed the token: their chat
\* requests are in flight with the tokens of two answers of the issuer, and
\* the cache holds the pair of one of them.
C23_Witness ==
    /\ route = "create"
    /\ \E r \in previewRuns : \E m \in manualSends :
          /\ r.stage = "chat" /\ m.stage = "chat"
          /\ r.token # m.token
          /\ sessionToken \in {r.token, m.token}
          /\ sessionTokenExpiry = sessionToken.exp

----------------------------------------------------------------------------
\* The order of the steps of a preview round

\* A timer that was due is gone after this step and its callback's closure
\* held the configuration cfg.
TimerFired(cfg) ==
    \E t \in timers : now >= t.deadline /\ t \notin timers' /\ t.cfg = cfg

\* This step wrote the reply of a preview round to the log.
ReplyCommitted ==
    /\ messages' # messages
    /\ Len(messages') = 2
    /\ messages'[2].id.prefix = "preview-assistant"

\* C24: a preview round starts in the step in which its timer fires; its
\* chat request is sent either in that same step with the token that was
\* cached and usable, or in the step in which the issuer answers the round's
\* call with a token, and carries that token; the reply is written in
\* the step that answers a chat request in flight, under the round's prompt;
\* and a round whose call of the issuer fails ends in that step with no chat
\* request sent.
C24_RoundOrder ==
    [][/\ \A r \in Fresh(previewRuns, previewRuns') :
             /\ TimerFired(r.cfg)
             /\ r.stage = "chat" => (CachedAndFresh /\ r.token = sessionToken)
       /\ \A r \in previewRuns' :
             (r.stage = "chat" /\ \E q \in previewRuns : q.n = r.n /\ q.stage = "token")
             => /\ \E e \in ExpiresInChoices :
                      r.token = IssuedToken(r.aid, NewExpiry(now, e))
                /\ sessionToken' = r.token
       /\ \A r \in previewRuns : \A q \in previewRuns' :
             q.n = r.n => (r.stage = "chat" => q = r)
       /\ \A r \in previewRuns :
             (r.stage = "token" /\ RoundEnded(r))
             => /\ ~PreviewChatSent
                /\ ~ReplyCommitted
                /\ sessionToken' = sessionToken
       /\ ReplyCommitted
             => \E r \in previewRuns :
                   /\ r.stage = "chat" /\ RoundEnded(r)
                   /\ r.token # NoToken
                   /\ messages'[1] = PreviewUserMessage(r.cfg)]_vars

\* A round has gone through all its steps with a refreshed token: the timer
\* fired, the issuer answered the round's call, the chat request was sent
\* and its reply is in the log.
C24_Witness ==
    /\ outcome.how = "reply" /\ previewRuns = {}
    /\ burst.round >= 0 /\ burst.reqs = 1
    /\ sessionToken # NoToken /\ \E e \in ExpiresInChoices : sessionToken.exp = NewExpiry(burst.round, e)
    /\ Len(messages) = 2 /\ messages[2].id.prefix = "preview-assistant"

----------------------------------------------------------------------------
\* Answers of preview requests that arrive out of order

\* C25: with no real user message in the log, the answer of a preview
\* request that was issued before the request of the round the log shows
\* does not overwrite that round: the log stays as the later round wrote it.
C25_NoStaleOverwrite ==
    [][\A r \in previewRuns :
          (/\ r.stage = "chat" /\ RoundEnded(r)
           /\ outcome.how = "reply" /\ outcome.n > r.n
           /\ ~RealActivity(messagesRef))
          => messages' = messages]_vars

----------------------------------------------------------------------------
\* AgentChatPage: clearChat while a message is in flight

\* The log was cleared after a message was sent and before its answer
\* arrived: a sendMessage call is in flight whose user message the log no
\* longer holds.
ClearedInFlight ==
    /\ route = "chat" /\ mounted
    /\ \E c \in chatSends : RealUserCount(messages) < c.n

\* C30: after clearChat, and until the user sends a new message, the
\* conversation id is null and the log holds at most the welcome message,
\* also in the step in which the answer to a message sent before the clear
\* arrives.
C30_ClearedStaysCleared ==
    [][(ClearedInFlight /\ ~RealActivity(messages'))
       => /\ conversationId' = 0
          /\ Len(messages') <= 1
          /\ \A i \in DOMAIN messages' : messages'[i].id.prefix = "welcome"]_vars

----------------------------------------------------------------------------
\* authStore: logout while a call awaits the network, and the current
\* organization

\* This step is a call of login by the login page.
LoginCalled ==
    \E c \in authCalls' : c.fn = "login" /\ c.stage = "orgs" /\ c \notin authCalls
                              /\ ~(\E q \in authCalls : q.id = c.id)

\* C26: once the store is logged out it stays logged out until login is
\* called: no answer to a call of initializeApp or login that was awaiting
\* the network when logout ran writes the token, the user, isAuthenticated,
\* the organizations or the current organization.
C26_LogoutIsFinal ==
    [][(route = "auth" /\ authStore = LoggedOut /\ ~LoginCalled)
       => authStore' = LoggedOut]_vars

\* C27: the current organization is null or one of the organizations of the
\* store.
C27_CurrentOrganizationListed ==
    route = "auth" =>
       \/ authStore.currentOrganization = NoOrg
       \/ \E i \in DOMAIN authStore.organizations :
             authStore.organizations[i] = authStore.currentOrganization

----------------------------------------------------------------------------
\* authStore: initializeApp comes to an end

\* A call of initializeApp with this id is in flight.
InitializingAs(id) == \E c \in authCalls : c.id = id /\ c.fn = "initializeApp"

\* C28: every call of initializeApp whose network calls are answered
\* finishes, and leaves isLoading false, which nothing sets again. Without a
\* stored token it makes no network call and leaves the store
\* unauthenticated with isLoading false; when getMe fails it ends in that
\* step in the logged-out state, the token cleared; when only the fetch of
\* the organizations fails (and nothing else wrote the store meanwhile) the
\* user it logged in stays logged in, and it finishes with isAuthenticated
\* true and isLoading false.
C28_InitializeAppFinishes ==
    /\ [][route = "auth" =>
            /\ ~authStore.isLoading => ~authStore'.isLoading
            /\ (InitializeApp /\ authStore.token = NoAuthToken)
               => /\ authCalls' = authCalls
                  /\ ~authStore'.isLoading /\ ~authStore'.isAuthenticated
                  /\ authStore'.token = NoAuthToken /\ authStore'.user = NoUser
            /\ \A c \in authCalls :
                  /\ (\E u \in AuthUsers : GetMeAnswered(c, FALSE, u))
                     => /\ authStore'.token = NoAuthToken /\ authStore'.user = NoUser
                        /\ ~authStore'.isAuthenticated /\ ~authStore'.isLoading
                        /\ authStore'.organizations = <<>>
                        /\ ~InitializingAs(c.id)'
                  /\ (c.fn = "initializeApp" /\ c.clean
                        /\ \E list \in OrgLists : OrgsAnswered(c, FALSE, list))
                     => /\ authStore'.isAuthenticated /\ authStore'.user = c.user
                        /\ authStore'.token = c.token
                  /\ (InitializeAppDone(c) /\ c.clean /\ ~c.orgsOk)
                     => /\ authStore'.isAuthenticated /\ authStore'.user = c.user
                        /\ authStore'.token = c.token /\ ~authStore'.isLoading
                  /\ InitializeAppDone(c)
                     => ~authStore'.isLoading /\ ~InitializingAs(c.id)']_vars
    /\ \A id \in 1..MaxAuthCalls :
          InitializingAs(id) ~> (~InitializingAs(id) /\ ~authStore.isLoading)

\* A call of initializeApp has logged the user in, its fetch of the
\* organizations has failed, and it is about to finish: the user is logged
\* in and isLoading is false.
C28_Witness ==
    /\ route = "auth"
    /\ \E c \in authCalls :
          /\ c.fn = "initializeApp" /\ c.stage = "finally" /\ ~c.orgsOk /\ c.clean
          /\ authStore.user = c.user /\ authStore.token = c.token
    /\ authStore.isAuthenticated /\ ~authStore.isLoading
    /\ authStore.organizations = <<>>

----------------------------------------------------------------------------
\* The polling of a crawl task

\* C29: a run of the polling effect sends no status request after its task
\* reported completed or failed, after a status request failed, or after its
\* cleanup ran (the page left, or the task id changed), also when the cleanup
\* ran while a status request was in flight.
C29_PollingStops ==
    [][\A q \in pollers : \A r \in pollers' :
          (r.task = q.task /\ (q.torn \/ q.stage = "done")) => r.sent = q.sent]_vars

=============================================================================
